---- MODULE Spec2Model ----
(***************************************************************************)
(* State-machine model of the peer-to-peer block synchronisation engines   *)
(* of crates/p2p/src/client/peer_agnostic.rs.                              *)
(*                                                                         *)
(* Each counted engine (transactions, state diffs, class definitions,      *)
(* events) is an async generator.  It is modelled by its control position  *)
(* `pc`, its local variables, the input count stream, and the sequence of  *)
(* items it has yielded so far.  Peers are adversarial: every              *)
(* `responses.next().await` may return any response, Fin, or None; of the  *)
(* transactions and state diffs taken in one run at most MaxCorrupt differ *)
(* from the chain's.                                                       *)
(***************************************************************************)
EXTENDS Integers, Sequences, FiniteSets, TLC

VARIABLES
    engine,               \* which make_*_stream this run is
    pc,                   \* control position inside the generator
    start0,               \* the `start` argument as passed in
    start,                \* `mut start`
    stop,                 \* `stop`
    reverse,              \* header_stream's `reverse` argument
    cs,                   \* the count(/commitment) stream, as a sequence
    cs_pos,               \* number of items taken from the count stream
    current_count_outer,  \* Option<usize>
    current_count,        \* usize, local to one peer attempt
    current_commitment,   \* commitment saved for the current block
    transactions,         \* accumulator of make_transaction_stream
    state_diff,           \* accumulator of make_state_diff_stream
    class_definitions,    \* accumulator of make_class_definition_stream
    events,               \* accumulator of make_event_stream
    current_txn_hash,     \* Option<TransactionHash> of make_event_stream
    peer,                 \* the peer being served (numbered per attempt)
    request,              \* Iteration of the last request built
    out,                  \* the Ok items yielded so far, in order
    errs,                 \* number of Err items yielded so far
    last,                 \* what the generator did in its last step
    corrupt,              \* history: number of data items received so far
                          \* that are not the chain's item for their place
    nitems,               \* history: number of state-diff responses taken
                          \* from the current peer for the current block
    dropped,              \* history: a peer was left while its accumulator
                          \* held items of an incomplete block
    resp,                 \* history: the last ContractDiff or DeclaredClass
                          \* taken from a peer, with a bit that flips at
                          \* every one taken
    stage,                \* the fields of a ProcessStage of the header sync
    mapped,               \* history: how the stage was constructed, the
                          \* last input and result of map, and the inputs
                          \* map returned as Ok
    db,                   \* the tables of the database that the header
                          \* sync reads and writes
    call,                 \* the last call of next_gap, of Persist::map or
                          \* of StarkHash::from_hex_str: its arguments, its
                          \* transaction and its result
    peers_with_capability,\* the PeersWithCapability of the client
    rwlock,               \* the RwLock around it: the tasks that hold a
                          \* read guard, the one that holds the write
                          \* guard, and the queue of those that wait
    tasks,                \* the callers of
                          \* get_update_peers_with_sync_capability: where
                          \* each one is, and its locals
    now,                  \* the time, in ticks
    cached_at,            \* history: when the set of a capability was put
                          \* in the cache
    handler,              \* the task that handle_json_rpc_socket spawns:
                          \* where it is, its write guard, the requests
                          \* of the message it handles and the responses
    subscriptions,        \* the keys of the DashMap of subscriptions
    subscription_tasks,   \* the task spawned by invoke for each
                          \* subscription id: where it is, and its locals
    ws_tx,                \* the websocket send channel: the messages
                          \* placed on it, in order, and whether its
                          \* receiver is gone
    next_subscription_id, \* the value SubscriptionId::next() returns
    flow,                 \* the task that invoke spawns, with its block
                          \* numbers: where it is, its locals, and history:
                          \* what it has sent and the updates it has taken
    rx1,                  \* the channel that T::subscribe sends the
                          \* active updates on
    latest                \* the number of the latest block in storage

vars == <<engine, pc, start0, start, stop, reverse, cs, cs_pos, current_count_outer,
          current_count, current_commitment, transactions, state_diff,
          class_definitions, events, current_txn_hash, peer, request,
          out, errs, last, corrupt, nitems, dropped, resp, stage, mapped,
          db, call, peers_with_capability, rwlock, tasks, now, cached_at,
          handler, subscriptions, subscription_tasks, ws_tx,
          next_subscription_id, flow, rx1, latest>>

\* the variables of the p2p client's streams
p2pVars == <<engine, pc, start0, start, stop, reverse, cs, cs_pos,
             current_count_outer, current_count, current_commitment,
             transactions, state_diff, class_definitions, events,
             current_txn_hash, peer, request, out, errs, last, corrupt,
             nitems, dropped, resp>>

\* the variables of the header sync stages
stageVars == <<stage, mapped>>

\* the variables of the peer directory and its callers
dirVars == <<peers_with_capability, rwlock, tasks, now, cached_at>>

\* the variables of the database and of the functions that use it
storeVars == <<db, call>>

\* the variables of the websocket of the RPC router
wsVars == <<handler, subscriptions, subscription_tasks, ws_tx,
            next_subscription_id>>

\* the variables of one subscription's task and of the chain it follows
flowVars == <<flow, rx1, latest>>

\* the variables that no stream of the p2p client reads or writes
syncVars == <<stageVars, storeVars, dirVars, wsVars, flowVars>>

\* the variables that no ProcessStage but Persist reads or writes
notStageVars == <<p2pVars, storeVars, dirVars, wsVars, flowVars>>

\* the variables that no function on the database reads or writes
notStoreVars == <<p2pVars, stageVars, dirVars, wsVars, flowVars>>

\* the variables that the peer directory does not read or write
notDirVars == <<p2pVars, stageVars, storeVars, wsVars, flowVars>>

\* the variables that the websocket does not read or write
notWsVars == <<p2pVars, stageVars, storeVars, dirVars, flowVars>>

\* the variables that a subscription's flow does not read or write
notFlowVars == <<p2pVars, stageVars, storeVars, dirVars, wsVars>>

\* no stage is constructed in a run of a stream
NoStage == [NAME |-> "none"]
NotMapped == [new |-> NoStage, input |-> <<>>, result |-> "none", ok |-> <<>>]

\* no database is opened and nothing is called on one
NoStorage == [block_headers |-> <<>>, signatures |-> <<>>,
              state_diff_commitment_and_length |-> <<>>]
NoCall == [fn |-> "none"]
NoStore == db = NoStorage /\ call = NoCall

\* no peer directory is looked up
NoDirectory ==
    /\ peers_with_capability = <<>>
    /\ rwlock = <<>>
    /\ tasks = <<>>
    /\ now = 0
    /\ cached_at = <<>>

\* no websocket is open
NoWebsocket ==
    /\ handler = <<>>
    /\ subscriptions = {}
    /\ subscription_tasks = <<>>
    /\ ws_tx = <<>>
    /\ next_subscription_id = 0

\* no subscription's flow is followed
NoFlow ==
    /\ flow = <<>>
    /\ rx1 = <<>>
    /\ latest = 0

\* the arguments of a run: never assigned after construction
inputVars == <<engine, start0, stop, reverse, cs>>

\* the accumulators of the four engines
accVars == <<transactions, state_diff, class_definitions, events,
             current_txn_hash>>

----------------------------------------------------------------------------
(* Bounds of the model *)

\* the first block of the range, the `start` argument
FirstBlock == 1
\* largest number of blocks in [start, stop]
MaxBlocks == 2
\* largest per-block count the count stream yields
MaxCount == 2
\* number of peers tried in one run
MaxAttempts == 2
\* number of data items in one run that differ from the chain's
MaxCorrupt == 1
MaxHeaders == 2
MaxHeight == 6
MaxTime == 3
TimeoutTicks == 1
MaxResponses == 3
BatchSize == 2
MaxDigits == 2
HexDigits == 64
BufLen == 32
MaxSent == 2
MaxMessages == 2
MaxBatch == 1
MaxSubscriptions == 1

----------------------------------------------------------------------------
(* Values *)

\* Option<T>: None is the empty tuple, Some(x) the one-element tuple
None == <<>>
Some(x) == <<x>>
IsSome(o) == o # <<>>
Unwrap(o) == o[1]

Engines == {"tx", "sd", "cl", "ev"}

\* `Default::default()` of a commitment (ZERO)
DefaultCommitment == <<>>

\* The commitment of a block payload, as recomputed by the consumer of the
\* stream: a collision-free digest, never the default commitment.
Commitment(payload) == <<payload>>

\* payloads a peer may put in a TransactionWithReceipt
TxVals == {0, 1}

\* the chain's transaction i of block b
TrueTx(b, i) == (b + i) % 2

\* the chain's transactions of block b, given its transaction count
TrueTxs(b, n) == [i \in 1..n |-> TrueTx(b, i - 1)]

\* ContractAddress::ONE, the system contract
ONE == 1

\* One write, and two writes to one key
OneWrite == <<[key |-> 1, value |-> 1]>>
SameKeyWrites == <<[key |-> 1, value |-> 1], [key |-> 1, value |-> 2]>>

\* StateDiffsResponse::ContractDiff
ContractDiff(a, n, c, v) ==
    [kind |-> "ContractDiff", address |-> a, nonce |-> n, class_hash |-> c,
     values |-> v]

\* The ContractDiff responses a peer may send: an empty one, a class hash
\* alone, a nonce with one storage write, and one for the system contract
\* that carries a nonce, a class hash and two writes to one key.
ContractDiffs ==
    { ContractDiff(2, None, None, <<>>),
      ContractDiff(2, None, Some(9), <<>>),
      ContractDiff(2, Some(7), None, OneWrite),
      ContractDiff(ONE, Some(7), Some(9), SameKeyWrites) }

\* StateDiffsResponse::DeclaredClass
DeclaredClass(h, c) ==
    [kind |-> "DeclaredClass", class_hash |-> h, compiled_class_hash |-> c]

\* the DeclaredClass responses a peer may send: a Cairo class
DeclaredClasses == { DeclaredClass(3, None) }

\* HashMap::insert
MapInsert(m, k, v) ==
    [x \in (DOMAIN m) \cup {k} |-> IF x = k THEN v ELSE m[x]]

\* HashMap::entry(k).or_default()
EntryOrDefault(m, k, d) == IF k \in DOMAIN m THEN m[k] ELSE d

\* ContractUpdate / SystemContractUpdate ::default()
DefaultUpdate == [storage |-> <<>>, nonce |-> None, class |-> None]

\* StateUpdateData::default()
DefaultStateUpdateData ==
    [system_contract_updates |-> <<>>, contract_updates |-> <<>>,
     declared_cairo_classes |-> {}, declared_sierra_classes |-> <<>>]

\* the values stored with entry(key).or_insert(value): the first write of a
\* key stays
RECURSIVE InsertValuesOnce(_, _)
InsertValuesOnce(storage, values) ==
    IF values = <<>> THEN storage
    ELSE InsertValuesOnce(
             IF values[1].key \in DOMAIN storage THEN storage
             ELSE MapInsert(storage, values[1].key, values[1].value),
             Tail(values))

\* values.into_iter().for_each(|v| storage.insert(key, value))
RECURSIVE InsertValues(_, _)
InsertValues(storage, values) ==
    IF values = <<>> THEN storage
    ELSE InsertValues(MapInsert(storage, values[1].key, values[1].value),
                      Tail(values))

\* usize::saturating_sub in the place of checked_sub
SaturatingSub(a, b) == Some(IF a >= b THEN a - b ELSE 0)

\* usize::checked_sub
CheckedSub(a, b) == IF a >= b THEN Some(a - b) ELSE None

\* The ContractDiff arm: the counter and the state diff it leaves, or
\* over = TRUE when one of its checked_sub calls returns None.
ApplyContractDiff(count, sd, d) ==
    LET c1 == CheckedSub(count, Len(d.values))
        c2 == IF IsSome(d.nonce) THEN CheckedSub(Unwrap(c1), 1) ELSE c1
        c3 == IF IsSome(d.class_hash) THEN CheckedSub(Unwrap(c2), 1) ELSE c2
        sys == EntryOrDefault(sd.system_contract_updates, d.address,
                              DefaultUpdate)
        upd == EntryOrDefault(sd.contract_updates, d.address, DefaultUpdate)
        upd1 == [upd EXCEPT !.storage = InsertValues(@, d.values)]
        upd2 == IF IsSome(d.nonce) THEN [upd1 EXCEPT !.nonce = d.nonce]
                ELSE upd1
        upd3 == IF IsSome(d.class_hash)
                THEN [upd2 EXCEPT !.class = Some(<<"Deploy",
                                                   Unwrap(d.class_hash)>>)]
                ELSE upd2
        overcount == [over |-> TRUE, count |-> count, sd |-> sd]
    IN  IF ~IsSome(c1) THEN overcount
        ELSE IF d.address = ONE
        THEN [over |-> FALSE, count |-> Unwrap(c1),
              sd |-> [sd EXCEPT !.system_contract_updates =
                        MapInsert(@, d.address,
                            [sys EXCEPT !.storage =
                                InsertValues(@, d.values)])]]
        ELSE IF ~IsSome(c2) THEN overcount
        ELSE IF ~IsSome(c3) THEN overcount
        ELSE [over |-> FALSE, count |-> Unwrap(c3),
              sd |-> [sd EXCEPT !.contract_updates =
                        MapInsert(@, d.address, upd3)]]

\* the DeclaredClass arm without its checked_sub
ApplyDeclaredClassUncounted(count, sd, d) ==
    [over |-> FALSE, count |-> count,
     sd |-> [sd EXCEPT !.declared_cairo_classes = @ \cup {d.class_hash}]]

\* The DeclaredClass arm
ApplyDeclaredClass(count, sd, d) ==
    LET sd1 == IF IsSome(d.compiled_class_hash)
               THEN [sd EXCEPT !.declared_sierra_classes =
                        MapInsert(@, d.class_hash,
                                  Unwrap(d.compiled_class_hash))]
               ELSE [sd EXCEPT !.declared_cairo_classes =
                        @ \cup {d.class_hash}]
        c == CheckedSub(count, 1)
    IN  IF ~IsSome(c) THEN [over |-> TRUE, count |-> count, sd |-> sd]
        ELSE [over |-> FALSE, count |-> Unwrap(c), sd |-> sd1]

\* one data response of the state diff protocol
ApplyStateDiffResponse(count, sd, r) ==
    IF r.kind = "ContractDiff" THEN ApplyContractDiff(count, sd, r)
    ELSE ApplyDeclaredClass(count, sd, r)

\* The chain's state diff responses of a block, given its state diff length:
\* contract diffs that count two (one storage write and a nonce), and a
\* declared class when the length is odd.
RECURSIVE TrueDiffs(_)
TrueDiffs(n) ==
    IF n = 0 THEN <<>>
    ELSE IF n = 1
    THEN <<DeclaredClass(3, None)>>
    ELSE <<ContractDiff(2, Some(7), None, OneWrite)>> \o TrueDiffs(n - 2)

\* the StateUpdateData a list of responses accumulates to
RECURSIVE FoldDiffs(_, _, _)
FoldDiffs(count, sd, rs) ==
    IF rs = <<>> THEN sd
    ELSE LET a == ApplyStateDiffResponse(count, sd, rs[1])
         IN  FoldDiffs(a.count, a.sd, Tail(rs))

\* the chain's state update of a block, given its state diff length
TrueStateDiff(n) == FoldDiffs(n, DefaultStateUpdateData, TrueDiffs(n))

----------------------------------------------------------------------------
(* The count stream *)

\* One item of the count stream: Ok(count, commitment) or Err.  The
\* commitment of an Ok item is the chain's commitment of that block.
CountItems ==
    [ok : {TRUE}, count : 0..MaxCount] \cup {[ok |-> FALSE, count |-> 0]}

\* Count streams for a range of n blocks: at most n items (fewer when the
\* stream ends early), an Err item only as the last one read.
CountStreams(n) ==
    UNION { { s \in [1..k -> CountItems] :
                \A i \in 1..(k - 1) : s[i].ok } : k \in 0..n }

\* the commitment the i-th item of the count stream carries: the chain's
\* commitment of block start0 + i - 1 (the class and event count streams
\* carry none)
StreamCommitment(i) ==
    CASE engine = "tx" -> Commitment(TrueTxs(start0 + i - 1, cs[i].count))
      [] engine = "sd" -> Commitment(TrueStateDiff(cs[i].count))
      [] OTHER -> DefaultCommitment

\* `stream.next().await` returns None, or Some(Err)
CountFails == cs_pos >= Len(cs) \/ ~cs[cs_pos + 1].ok

\* the commitment of the count stream's item dropped
NextCommitmentDropped == DefaultCommitment

\* the count and the commitment of the item `stream.next().await` returns
NextCount == cs[cs_pos + 1].count
NextCommitment == StreamCommitment(cs_pos + 1)

\* a failed count handled as a fault of the peer: the Err item is yielded
\* and the next peer is tried
CountFailureNextPeer ==
    /\ errs' = errs + 1
    /\ pc' = "next_peer"
    /\ last' = "count_failed"
    /\ cs_pos' = IF cs_pos < Len(cs) THEN cs_pos + 1 ELSE cs_pos

\* the `?` on a failed count: one Err item is yielded and the generator ends
CountFailure ==
    /\ errs' = errs + 1
    /\ pc' = "done"
    /\ last' = "count_failed"
    /\ cs_pos' = IF cs_pos < Len(cs) THEN cs_pos + 1 ELSE cs_pos

----------------------------------------------------------------------------
(* The peer loop shared by the four engines *)

\* `let peers = get_peers().await`: any list of peers, also an empty one
GetPeers(e) ==
    /\ engine = e
    /\ UNCHANGED <<resp, syncVars>>
    /\ pc = "get_peers"
    /\ pc' = "next_peer"
    /\ last' = "get_peers"
    /\ UNCHANGED <<inputVars, accVars, start, cs_pos, current_count_outer,
                   current_count, current_commitment, peer, request, out,
                   errs, corrupt, nitems, dropped>>

\* the `for peer in peers` loop has no peer left (the list may have any
\* length): back to the head of 'outer
PeersExhausted(e) ==
    /\ engine = e
    /\ UNCHANGED <<resp, syncVars>>
    /\ pc = "next_peer"
    /\ pc' = "get_peers"
    /\ last' = "exhausted"
    /\ UNCHANGED <<inputVars, accVars, start, cs_pos, current_count_outer,
                   current_count, current_commitment, peer, request, out,
                   errs, corrupt, nitems, dropped>>

\* the request built from the start of the range instead of the current block
IterationFromRangeStart == [start |-> start0, limit |-> stop - start0 + 1]

\* the request built for the next peer
Iteration == [start |-> start, limit |-> stop - start + 1]

\* the list has a next peer: it is taken and the request for it is built
TakePeer(e) ==
    /\ engine = e
    /\ UNCHANGED <<resp, syncVars>>
    /\ pc = "next_peer"
    /\ peer < MaxAttempts
    /\ peer' = peer + 1
    /\ request' = Some(Iteration)
    /\ nitems' = 0

\* a failed request that also forgets the count saved for the block
SendRequestFailsForgetsCount(e) ==
    /\ TakePeer(e)
    /\ pc' = "next_peer"
    /\ last' = "send_failed"
    /\ current_count_outer' = None
    /\ UNCHANGED <<inputVars, accVars, start, cs_pos, current_count,
                   current_commitment, out, errs, corrupt, dropped>>

\* send_request returns Err: `continue 'next_peer`
SendRequestFails(e) ==
    /\ TakePeer(e)
    /\ pc' = "next_peer"
    /\ last' = "send_failed"
    /\ UNCHANGED <<inputVars, accVars, start, cs_pos, current_count_outer,
                   current_count, current_commitment, out, errs, corrupt,
                   dropped>>

\* the backup following the running counter instead of keeping the block's
\* count: what is left of it once the failed peer has sent an item
SavedCountRunning ==
    IF Unwrap(current_count_outer) > 0
    THEN Unwrap(current_count_outer) - 1
    ELSE 0

\* `Some(backup) => backup`: the count saved for the block being served
SavedCount == Unwrap(current_count_outer)

\* `match current_count_outer`: the saved count of the block, or the next
\* item of the count stream; then the response loop is entered at `to`
RequestSent(to) ==
    /\ IF IsSome(current_count_outer)
       THEN /\ current_count' = SavedCount
            /\ pc' = to
            /\ last' = "request"
            /\ UNCHANGED <<current_count_outer, current_commitment, cs_pos,
                           errs>>
       ELSE IF CountFails
       THEN /\ CountFailure
            /\ UNCHANGED <<current_count_outer, current_commitment,
                           current_count>>
       ELSE /\ current_count_outer' = Some(NextCount)
            /\ current_commitment' = NextCommitment
            /\ current_count' = NextCount
            /\ cs_pos' = cs_pos + 1
            /\ pc' = to
            /\ last' = "request"
            /\ UNCHANGED errs
    /\ UNCHANGED <<inputVars, accVars, start, out, corrupt, dropped>>

\* send_request returns the response channel
SendRequestOk(e, to) == TakePeer(e) /\ RequestSent(to)

\* whether an accumulator of the attempt holds an item
AccumulatorHoldsItems ==
    \/ transactions # <<>>
    \/ state_diff # DefaultStateUpdateData
    \/ class_definitions # <<>>
    \/ events # <<>>

\* NextPeer with the accumulators and the counter declared outside the
\* peer loop: they survive the switch
NextPeerKeepsAccumulators(why) ==
    /\ pc' = "next_peer"
    /\ last' = why
    /\ dropped' = (dropped \/ AccumulatorHoldsItems)
    /\ UNCHANGED <<inputVars, accVars, start, cs_pos, current_count_outer,
                   current_count, current_commitment, peer, request, out,
                   errs, corrupt, nitems>>

\* the response loop is left for the next peer: the locals of the attempt
\* (the counter, the accumulators) go out of scope
NextPeer(why) ==
    /\ pc' = "next_peer"
    /\ last' = why
    /\ current_count' = 0
    /\ transactions' = <<>>
    /\ state_diff' = DefaultStateUpdateData
    /\ class_definitions' = <<>>
    /\ events' = <<>>
    /\ current_txn_hash' = None
    /\ dropped' = (dropped \/ AccumulatorHoldsItems)
    /\ UNCHANGED <<inputVars, start, cs_pos, current_count_outer,
                   current_commitment, peer, request, out, errs, corrupt,
                   nitems>>

\* the generator stops at `to` ("done", or "panic"): its locals are dropped
Stop(to, why, nerrs) ==
    /\ pc' = to
    /\ last' = why
    /\ errs' = errs + nerrs
    /\ current_count' = 0
    /\ transactions' = <<>>
    /\ state_diff' = DefaultStateUpdateData
    /\ class_definitions' = <<>>
    /\ events' = <<>>
    /\ current_txn_hash' = None
    /\ UNCHANGED <<inputVars, start, cs_pos, current_count_outer,
                   current_commitment, peer, request, out, corrupt,
                   nitems, dropped>>

\* `break 'outer`, or the `?` of a failed conversion: the generator ends
Terminate(why, nerrs) == Stop("done", why, nerrs)

\* an over-count arm handled as a fault of the peer: the next peer is tried
OverCountNextPeer == NextPeer("overcount")

\* an over-count arm: `debug_assert!(start == stop); break 'outer`. A build
\* with debug assertions panics when the block is not the last one
OverCount ==
    \/ Terminate("overcount", 0)
    \/ start # stop /\ Stop("panic", "overcount", 0)

----------------------------------------------------------------------------
(* make_transaction_stream *)

TxGetPeers == GetPeers("tx")
TxPeersExhausted == PeersExhausted("tx")
TxSendRequestFails == SendRequestFails("tx")
TxSendRequestOk == SendRequestOk("tx", "recv")

\* `if current_count == 0`: the counter of the block is exhausted
BlockComplete(count) == count = 0

\* transaction indices counted from one
TxIndexFromOne(txs) == Len(txs) + 1

\* the transaction index given to the receipt of the next transaction
TxIndex(txs) == Len(txs)

\* the item yielded for the current block
TxItem(count, txs) ==
    [block |-> start, peer |-> peer, counter |-> count,
     expected_commitment |-> current_commitment, transactions |-> txs]

\* `if current_count == 0 { yield ...; if start < stop { ... } }` at the end
\* of the response loop's body, the counter being `count` and the
\* accumulator `txs` at that point
TxBlockCheck(count, txs) ==
    IF BlockComplete(count)
    THEN /\ out' = Append(out, TxItem(count, txs))
         /\ transactions' = <<>>
         /\ IF start < stop
            THEN /\ start' = start + 1
                 /\ IF CountFails
                    THEN /\ CountFailure
                         /\ current_count' = 0
                         /\ current_commitment' = DefaultCommitment
                         /\ UNCHANGED current_count_outer
                    ELSE /\ current_count' = NextCount
                         /\ current_count_outer' = Some(NextCount)
                         /\ current_commitment' = NextCommitment
                         /\ cs_pos' = cs_pos + 1
                         /\ last' = "yield"
                         /\ UNCHANGED <<pc, errs>>
            ELSE /\ current_count' = 0
                 /\ current_commitment' = DefaultCommitment
                 /\ last' = "yield"
                 /\ UNCHANGED <<pc, errs, start, cs_pos, current_count_outer>>
    ELSE /\ current_count' = count
         /\ transactions' = txs
         /\ last' = "item"
         /\ UNCHANGED <<pc, errs, start, cs_pos, current_count_outer,
                        current_commitment, out>>

\* the arm of TransactionsResponse::TransactionWithReceipt, for the
\* transaction t, and the block check after it
TxTake(t) ==
    LET r == [t |-> t, transaction_index |-> TxIndex(transactions),
              from |-> peer]
        x == CheckedSub(current_count, 1)
    IN  IF ~IsSome(x)
        THEN OverCount
        ELSE /\ t = TrueTx(start, Len(transactions)) \/ corrupt < MaxCorrupt
             /\ TxBlockCheck(Unwrap(x), Append(transactions, r))
             /\ corrupt' = IF t = TrueTx(start, Len(transactions))
                           THEN corrupt ELSE corrupt + 1
             /\ UNCHANGED <<inputVars, state_diff, class_definitions,
                            events, current_txn_hash, peer, request,
                            nitems, dropped>>

\* a TransactionWithReceipt arrives and converts
TxRecvTransaction ==
    /\ engine = "tx"
    /\ UNCHANGED <<resp, syncVars>>
    /\ pc = "recv"
    /\ \E t \in TxVals : TxTake(t)

\* a TransactionWithReceipt arrives and try_from_dto / try_from fails
TxRecvConversionError ==
    /\ engine = "tx"
    /\ UNCHANGED <<resp, syncVars>>
    /\ pc = "recv"
    /\ Terminate("conversion_failed", 1)

\* Fin arrives
TxRecvFin ==
    /\ engine = "tx"
    /\ UNCHANGED <<resp, syncVars>>
    /\ pc = "recv"
    /\ IF current_count = 0
       THEN IF start = stop
            THEN Terminate("fin_done", 0)
            ELSE /\ TxBlockCheck(current_count, transactions)
                 /\ UNCHANGED <<inputVars, state_diff, class_definitions,
                                events, current_txn_hash, peer,
                                request, corrupt, nitems, dropped>>
       ELSE NextPeer("premature_fin")

\* the response channel is closed: `responses.next().await` returns None
TxRecvNone ==
    /\ engine = "tx"
    /\ UNCHANGED <<resp, syncVars>>
    /\ pc = "recv"
    /\ NextPeer("closed")

NextTx ==
    \/ TxGetPeers
    \/ TxPeersExhausted
    \/ TxSendRequestFails
    \/ TxSendRequestOk
    \/ TxRecvTransaction
    \/ TxRecvConversionError
    \/ TxRecvFin
    \/ TxRecvNone

----------------------------------------------------------------------------
(* make_state_diff_stream *)

SdGetPeers == GetPeers("sd")
SdPeersExhausted == PeersExhausted("sd")
SdSendRequestFails == SendRequestFails("sd")
SdSendRequestOk == SendRequestOk("sd", "recv")

\* the item yielded for the current block
SdItem(count, sd) ==
    [block |-> start, peer |-> peer, counter |-> count,
     expected_commitment |-> current_commitment, state_diff |-> sd]

\* `if current_count == 0 { yield ...; if start < stop { ... } }` at the end
\* of the response loop's body
SdBlockCheck(count, sd) ==
    IF BlockComplete(count)
    THEN /\ out' = Append(out, SdItem(count, sd))
         /\ state_diff' = DefaultStateUpdateData
         /\ IF start < stop
            THEN /\ start' = start + 1
                 /\ IF CountFails
                    THEN /\ CountFailure
                         /\ current_count' = 0
                         /\ current_commitment' = DefaultCommitment
                         /\ UNCHANGED current_count_outer
                    ELSE /\ current_count' = NextCount
                         /\ current_count_outer' = Some(NextCount)
                         /\ current_commitment' = NextCommitment
                         /\ cs_pos' = cs_pos + 1
                         /\ last' = "yield"
                         /\ UNCHANGED <<pc, errs>>
            ELSE /\ current_count' = 0
                 /\ current_commitment' = DefaultCommitment
                 /\ last' = "yield"
                 /\ UNCHANGED <<pc, errs, start, cs_pos, current_count_outer>>
    ELSE /\ current_count' = count
         /\ state_diff' = sd
         /\ last' = "item"
         /\ UNCHANGED <<pc, errs, start, cs_pos, current_count_outer,
                        current_commitment, out>>

\* the responses a peer may send besides Fin
StateDiffResponses == ContractDiffs \cup DeclaredClasses

\* whether r is the chain's response at the place the engine is at
SdExpected(r) ==
    LET truth == TrueDiffs(Unwrap(current_count_outer))
    IN  nitems < Len(truth) /\ truth[nitems + 1] = r

\* no response taken yet
NoResponse == [response |-> <<>>, flip |-> 0]

\* `Some(state_diff_response) = responses.next().await`, a data response
Received(r) == [response |-> r, flip |-> 1 - resp.flip]

\* a ContractDiff or a DeclaredClass arrives
SdRecvDiff ==
    /\ engine = "sd"
    /\ pc = "recv"
    /\ \E r \in StateDiffResponses :
        LET a == ApplyStateDiffResponse(current_count, state_diff, r)
        IN  /\ resp' = Received(r)
            /\ UNCHANGED syncVars
            /\ IF a.over
               THEN OverCount
               ELSE /\ SdExpected(r) \/ corrupt < MaxCorrupt
                    /\ SdBlockCheck(a.count, a.sd)
                    /\ corrupt' = IF SdExpected(r) THEN corrupt
                                  ELSE corrupt + 1
                    /\ nitems' = IF start' = start THEN nitems + 1 ELSE 0
                    /\ UNCHANGED <<inputVars, transactions,
                                   class_definitions, events,
                                   current_txn_hash, peer, request, dropped>>

\* Fin arrives
SdRecvFin ==
    /\ engine = "sd"
    /\ UNCHANGED <<resp, syncVars>>
    /\ pc = "recv"
    /\ IF current_count = 0
       THEN IF start = stop
            THEN Terminate("fin_done", 0)
            ELSE /\ SdBlockCheck(current_count, state_diff)
                 /\ nitems' = 0
                 /\ UNCHANGED <<inputVars, transactions, class_definitions,
                                events, current_txn_hash, peer, request,
                                corrupt, dropped>>
       ELSE NextPeer("premature_fin")

\* the response channel is closed
SdRecvNone ==
    /\ engine = "sd"
    /\ UNCHANGED <<resp, syncVars>>
    /\ pc = "recv"
    /\ NextPeer("closed")

NextSd ==
    \/ SdGetPeers
    \/ SdPeersExhausted
    \/ SdSendRequestFails
    \/ SdSendRequestOk
    \/ SdRecvDiff
    \/ SdRecvFin
    \/ SdRecvNone

----------------------------------------------------------------------------
(* make_class_definition_stream *)

ClGetPeers == GetPeers("cl")
ClPeersExhausted == PeersExhausted("cl")
ClSendRequestFails == SendRequestFails("cl")
ClSendRequestOk == SendRequestOk("cl", "block")

\* kinds of class a peer may send: Class::Cairo0 and Class::Cairo1
ClassKinds == {"Cairo", "Sierra"}

\* the items yielded for the current block, one per class definition
ClItems ==
    [i \in 1..Len(class_definitions) |->
        [block |-> start, peer |-> peer, counter |-> current_count,
         definition |-> class_definitions[i]]]

\* `break 'outer` after a block's yield whatever the block
AdvanceBlockBreaks ==
    /\ pc' = "done"
    /\ last' = "yield_done"
    /\ UNCHANGED <<start, cs_pos, current_count_outer, current_count, errs>>

\* After the last item of a block was yielded: `if start == stop { break
\* 'outer }`, else the next block and its count
AdvanceBlock ==
    IF start = stop
    THEN /\ pc' = "done"
         /\ last' = "yield_done"
         /\ UNCHANGED <<start, cs_pos, current_count_outer, current_count,
                        errs>>
    ELSE /\ start' = start + 1
         /\ IF CountFails
            THEN /\ CountFailure
                 /\ current_count' = 0
                 /\ UNCHANGED current_count_outer
            ELSE /\ current_count' = NextCount
                 /\ current_count_outer' = Some(NextCount)
                 /\ cs_pos' = cs_pos + 1
                 /\ last' = "yield"
                 /\ UNCHANGED <<pc, errs>>

\* `while current_count > 0` ends: the block's class definitions are
\* yielded, then the next block is entered or the stream ends
ClBlockComplete ==
    /\ engine = "cl"
    /\ UNCHANGED <<resp, syncVars>>
    /\ pc = "block"
    /\ current_count = 0
    /\ out' = out \o ClItems
    /\ class_definitions' = <<>>
    /\ AdvanceBlock
    /\ UNCHANGED <<inputVars, transactions, state_diff, events,
                   current_txn_hash, current_commitment, peer, request,
                   corrupt, nitems, dropped>>

\* a Class arrives and converts
ClRecvClass ==
    /\ engine = "cl"
    /\ UNCHANGED <<resp, syncVars>>
    /\ pc = "block"
    /\ current_count > 0
    /\ \E k \in ClassKinds :
        class_definitions' =
            Append(class_definitions,
                   [kind |-> k, block_number |-> start, from |-> peer])
    /\ current_count' = current_count - 1
    /\ last' = "item"
    /\ UNCHANGED <<inputVars, transactions, state_diff, events,
                   current_txn_hash, pc, start, cs_pos, current_count_outer,
                   current_commitment, peer, request, out, errs, corrupt,
                   nitems, dropped>>

\* a Class arrives and try_from_dto fails
ClRecvConversionError ==
    /\ engine = "cl"
    /\ UNCHANGED <<resp, syncVars>>
    /\ pc = "block"
    /\ current_count > 0
    /\ Terminate("conversion_failed", 1)

\* Fin arrives while classes are expected
ClRecvFin ==
    /\ engine = "cl"
    /\ UNCHANGED <<resp, syncVars>>
    /\ pc = "block"
    /\ current_count > 0
    /\ NextPeer("premature_fin")

\* the response channel is closed while classes are expected
ClRecvNone ==
    /\ engine = "cl"
    /\ UNCHANGED <<resp, syncVars>>
    /\ pc = "block"
    /\ current_count > 0
    /\ NextPeer("closed")

NextCl ==
    \/ ClGetPeers
    \/ ClPeersExhausted
    \/ ClSendRequestFails
    \/ ClSendRequestOk
    \/ ClBlockComplete
    \/ ClRecvClass
    \/ ClRecvConversionError
    \/ ClRecvFin
    \/ ClRecvNone

----------------------------------------------------------------------------
(* make_event_stream *)

EvGetPeers == GetPeers("ev")
EvPeersExhausted == PeersExhausted("ev")
EvSendRequestFails == SendRequestFails("ev")
EvSendRequestOk == SendRequestOk("ev", "block")

\* transaction hashes a peer may put in an Event
TxnHashes == {1, 2}

\* the item yielded for the current block
EvItem ==
    [block |-> start, peer |-> peer, counter |-> current_count,
     events |-> events]

\* `while current_count > 0` ends: the block's events are yielded, then the
\* next block is entered or the stream ends
EvBlockComplete ==
    /\ engine = "ev"
    /\ UNCHANGED <<resp, syncVars>>
    /\ pc = "block"
    /\ current_count = 0
    /\ out' = Append(out, EvItem)
    /\ events' = <<>>
    /\ AdvanceBlock
    /\ UNCHANGED <<inputVars, transactions, state_diff, class_definitions,
                   current_txn_hash, current_commitment, peer, request,
                   corrupt, nitems, dropped>>

\* events.last_mut().expect("not empty").1.push(event)
PushToLastGroup(groups, event) ==
    [groups EXCEPT ![Len(groups)].events = Append(@, event)]

\* an Event arrives and converts
EvRecvEvent ==
    /\ engine = "ev"
    /\ UNCHANGED <<resp, syncVars>>
    /\ pc = "block"
    /\ current_count > 0
    /\ \E h \in TxnHashes :
        LET event == [transaction_hash |-> h, from |-> peer]
        IN  IF current_txn_hash = Some(h)
            THEN IF events = <<>>
                 THEN \* expect("not empty") panics
                      /\ pc' = "panic"
                      /\ last' = "panic"
                      /\ UNCHANGED <<events, current_txn_hash, current_count>>
                 ELSE /\ events' = PushToLastGroup(events, event)
                      /\ current_count' = current_count - 1
                      /\ last' = "item"
                      /\ UNCHANGED <<pc, current_txn_hash>>
            ELSE /\ events' = Append(events, [transaction_hash |-> h,
                                              events |-> <<event>>])
                 /\ current_txn_hash' = Some(h)
                 /\ current_count' = current_count - 1
                 /\ last' = "item"
                 /\ UNCHANGED pc
    /\ UNCHANGED <<inputVars, transactions, state_diff, class_definitions,
                   start, cs_pos, current_count_outer, current_commitment,
                   peer, request, out, errs, corrupt, nitems, dropped>>

\* an Event arrives and try_from_dto fails
EvRecvConversionError ==
    /\ engine = "ev"
    /\ UNCHANGED <<resp, syncVars>>
    /\ pc = "block"
    /\ current_count > 0
    /\ Terminate("conversion_failed", 1)

\* Fin arrives while events are expected
EvRecvFin ==
    /\ engine = "ev"
    /\ UNCHANGED <<resp, syncVars>>
    /\ pc = "block"
    /\ current_count > 0
    /\ NextPeer("premature_fin")

\* the response channel is closed while events are expected
EvRecvNone ==
    /\ engine = "ev"
    /\ UNCHANGED <<resp, syncVars>>
    /\ pc = "block"
    /\ current_count > 0
    /\ NextPeer("closed")

NextEv ==
    \/ EvGetPeers
    \/ EvPeersExhausted
    \/ EvSendRequestFails
    \/ EvSendRequestOk
    \/ EvBlockComplete
    \/ EvRecvEvent
    \/ EvRecvConversionError
    \/ EvRecvFin
    \/ EvRecvNone

----------------------------------------------------------------------------
(* Construction *)

\* the state of engine e before the generator is first polled
InitEngine(e) ==
    /\ engine = e
    /\ start0 = FirstBlock
    /\ \E n \in 0..MaxBlocks :
        /\ stop = start0 + n - 1
        /\ cs \in CountStreams(n)
    /\ reverse = FALSE
    /\ start = start0
    /\ pc = IF start0 <= stop THEN "get_peers" ELSE "done"
    /\ cs_pos = 0
    /\ current_count_outer = None
    /\ current_count = 0
    /\ current_commitment = DefaultCommitment
    /\ transactions = <<>>
    /\ state_diff = DefaultStateUpdateData
    /\ class_definitions = <<>>
    /\ events = <<>>
    /\ current_txn_hash = None
    /\ peer = 0
    /\ request = None
    /\ out = <<>>
    /\ errs = 0
    /\ last = "init"
    /\ corrupt = 0
    /\ nitems = 0
    /\ dropped = FALSE
    /\ resp = NoResponse
    /\ stage = NoStage
    /\ mapped = NotMapped
    /\ NoStore
    /\ NoDirectory
    /\ NoWebsocket
    /\ NoFlow

InitTx == InitEngine("tx")
SpecTx == InitTx /\ [][NextTx]_vars

InitSd == InitEngine("sd")
SpecSd == InitSd /\ [][NextSd]_vars

InitCl == InitEngine("cl")
SpecCl == InitCl /\ [][NextCl]_vars

InitEv == InitEngine("ev")
SpecEv == InitEv /\ [][NextEv]_vars

\* the four counted engines
Init == \E e \in Engines : InitEngine(e)
Next == NextTx \/ NextSd \/ NextCl \/ NextEv
Spec == Init /\ [][Next]_vars

\* the engines that wait for Fin: transactions and state diffs
InitTxSd == InitTx \/ InitSd
NextTxSd == NextTx \/ NextSd
SpecTxSd == InitTxSd /\ [][NextTxSd]_vars

\* the engines that yield without reading once the counter is zero, and the
\* transaction engine
InitTxClEv == InitTx \/ InitCl \/ InitEv
NextTxClEv == NextTx \/ NextCl \/ NextEv
SpecTxClEv == InitTxClEv /\ [][NextTxClEv]_vars

----------------------------------------------------------------------------
(* header_stream *)

\* the block numbers of the headers a peer may send
HeaderNumbers == 0..(FirstBlock + MaxBlocks)

\* `let (mut start, stop, direction) = match reverse`: the first position,
\* and the local `stop`
HdFirst == IF reverse THEN stop ELSE start0
HdStop == IF reverse THEN start0 ELSE stop
Direction == IF reverse THEN "Backward" ELSE "Forward"

Max(a, b) == IF a >= b THEN a ELSE b
Min(a, b) == IF a <= b THEN a ELSE b

\* the parent of a block number, the genesis edge case not handled
ParentUnchecked(n) == n - 1

\* BlockNumber::parent().unwrap_or_default()
ParentOrDefault(n) == IF n = 0 THEN 0 ELSE n - 1

\* `match direction { Forward => if start >= stop .., Backward => if start
\* <= stop .. }` at the head of the peer loop's body
HdRangeDone == IF reverse THEN start <= HdStop ELSE start >= HdStop

\* the BlockHeadersRequest built for the next peer
HdIteration ==
    [start |-> start, direction |-> Direction,
     limit |-> Max(start, HdStop) - Min(start, HdStop) + 1]

\* the position after a header was taken
HdAdvance == IF reverse THEN ParentOrDefault(start) ELSE start + 1

HdGetPeers == GetPeers("hd")
HdPeersExhausted == PeersExhausted("hd")

\* the peer loop's body is entered with the range done: `break 'outer`
HdBreak ==
    /\ engine = "hd"
    /\ pc = "next_peer"
    /\ HdRangeDone
    /\ pc' = "done"
    /\ last' = "range_done"
    /\ UNCHANGED <<inputVars, accVars, start, cs_pos, current_count_outer,
                   current_count, current_commitment, peer, request, out,
                   errs, corrupt, nitems, dropped, resp, syncVars>>

\* the peer loop's body is entered with the range not done: the request for
\* the next peer is built
HdTakePeer ==
    /\ engine = "hd"
    /\ pc = "next_peer"
    /\ ~HdRangeDone
    /\ peer < MaxAttempts
    /\ peer' = peer + 1
    /\ request' = Some(HdIteration)
    /\ nitems' = 0
    /\ UNCHANGED <<inputVars, accVars, start, cs_pos, current_count_outer,
                   current_count, current_commitment, out, errs, corrupt,
                   dropped, resp, syncVars>>

\* send_headers_sync_request returns Err: `continue 'next_peer`
HdSendRequestFails ==
    /\ HdTakePeer
    /\ pc' = "next_peer"
    /\ last' = "send_failed"

\* send_headers_sync_request returns the response channel
HdSendRequestOk ==
    /\ HdTakePeer
    /\ pc' = "recv"
    /\ last' = "request"

\* whether a header of block h is what a peer serving the chain sends next:
\* the header of the next position of the request, within its limit
HdExpected(h) ==
    LET r == Unwrap(request)
    IN  /\ nitems < r.limit
        /\ h = IF reverse THEN r.start - nitems ELSE r.start + nitems

\* the item yielded for a header of block h
HdItem(h) == [block |-> h, peer |-> peer, position |-> start]

\* a Header arrives and converts: the position moves and the header is
\* yielded
HdRecvHeader ==
    /\ engine = "hd"
    /\ pc = "recv"
    /\ \E h \in HeaderNumbers :
        /\ HdExpected(h) \/ corrupt < MaxCorrupt
        /\ corrupt' = IF HdExpected(h) THEN corrupt ELSE corrupt + 1
        /\ out' = Append(out, HdItem(h))
    /\ start' = HdAdvance
    /\ nitems' = nitems + 1
    /\ last' = "yield"
    /\ UNCHANGED <<inputVars, accVars, pc, cs_pos, current_count_outer,
                   current_count, current_commitment, peer, request, errs,
                   dropped, resp, syncVars>>

\* the response loop of header_stream is left for the next peer
HdNextPeer(why) ==
    /\ engine = "hd"
    /\ pc = "recv"
    /\ pc' = "next_peer"
    /\ last' = why
    /\ UNCHANGED <<inputVars, accVars, start, cs_pos, current_count_outer,
                   current_count, current_commitment, peer, request, out,
                   errs, corrupt, nitems, dropped, resp, syncVars>>

\* a Header arrives and SignedBlockHeader::try_from fails
HdRecvConversionError == HdNextPeer("conversion_failed")

\* Fin arrives
HdRecvFin == HdNextPeer("fin")

\* the response channel is closed
HdRecvNone == HdNextPeer("closed")

NextHd ==
    \/ HdGetPeers
    \/ HdPeersExhausted
    \/ HdBreak
    \/ HdSendRequestFails
    \/ HdSendRequestOk
    \/ HdRecvHeader
    \/ HdRecvConversionError
    \/ HdRecvFin
    \/ HdRecvNone

\* header_stream before the stream is first polled, for a range that starts
\* at genesis or at FirstBlock
InitHd ==
    /\ engine = "hd"
    /\ start0 \in {0, FirstBlock}
    /\ \E n \in 0..MaxBlocks : stop = start0 + n - 1
    /\ stop >= 0
    /\ reverse \in BOOLEAN
    /\ cs = <<>>
    /\ start = HdFirst
    /\ pc = "get_peers"
    /\ cs_pos = 0
    /\ current_count_outer = None
    /\ current_count = 0
    /\ current_commitment = DefaultCommitment
    /\ transactions = <<>>
    /\ state_diff = DefaultStateUpdateData
    /\ class_definitions = <<>>
    /\ events = <<>>
    /\ current_txn_hash = None
    /\ peer = 0
    /\ request = None
    /\ out = <<>>
    /\ errs = 0
    /\ last = "init"
    /\ corrupt = 0
    /\ nitems = 0
    /\ dropped = FALSE
    /\ resp = NoResponse
    /\ stage = NoStage
    /\ mapped = NotMapped
    /\ NoStore
    /\ NoDirectory
    /\ NoWebsocket
    /\ NoFlow

SpecHd == InitHd /\ [][NextHd]_vars

\* the five engines of the client
InitP2P == Init \/ InitHd
NextP2P == Next \/ NextHd
SpecP2P == InitP2P /\ [][NextP2P]_vars

----------------------------------------------------------------------------
(* The continuity stage of the header sync: sync/headers.rs *)

\* the block hashes of the headers a peer may send
BlockHashes == {"h1", "h2", "h3"}

\* The signed headers given to a stage: number, hash and parent_hash are
\* the fields the stage reads.
SignedBlockHeaders ==
    [number : HeaderNumbers, hash : BlockHashes, parent_hash : BlockHashes]

\* ForwardContinuity::new(next, parent_hash)
ForwardContinuityNew(next, parent_hash) ==
    [NAME |-> "Headers::Continuity", next |-> next,
     parent_hash |-> parent_hash]

\* the test of ForwardContinuity::map without the parent hash
DiscontinuityByNumber(self, header) == header.number # self.next

\* `header.number != self.next || header.parent_hash != self.parent_hash`
Discontinuity(self, header) ==
    header.number # self.next \/ header.parent_hash # self.parent_hash

\* The fields of ForwardContinuity after map took header without a
\* Discontinuity: `self.next += 1; self.parent_hash = header.hash`.
ForwardContinuityAdvance(self, header) ==
    [self EXCEPT !.next = self.next + 1, !.parent_hash = header.hash]

\* ForwardContinuity::map(input); at most MaxHeaders headers are given that
\* it returns as Ok
ForwardContinuityMap ==
    /\ stage.NAME = "Headers::Continuity"
    /\ \E input \in SignedBlockHeaders :
        IF Discontinuity(stage, input)
        THEN /\ mapped' = [mapped EXCEPT !.input = Some(input),
                                         !.result = "Discontinuity"]
             /\ UNCHANGED stage
        ELSE /\ Len(mapped.ok) < MaxHeaders
             /\ stage' = ForwardContinuityAdvance(stage, input)
             /\ mapped' = [mapped EXCEPT !.input = Some(input),
                                         !.result = "Ok",
                                         !.ok = Append(mapped.ok, input)]
    /\ UNCHANGED notStageVars

\* no stream runs beside the stage
NoStream ==
    /\ engine = "none"
    /\ pc = "done"
    /\ start0 = 0 /\ start = 0 /\ stop = 0 /\ reverse = FALSE
    /\ cs = <<>> /\ cs_pos = 0
    /\ current_count_outer = None /\ current_count = 0
    /\ current_commitment = DefaultCommitment
    /\ transactions = <<>>
    /\ state_diff = DefaultStateUpdateData
    /\ class_definitions = <<>>
    /\ events = <<>>
    /\ current_txn_hash = None
    /\ peer = 0 /\ request = None
    /\ out = <<>> /\ errs = 0
    /\ last = "init"
    /\ corrupt = 0 /\ nitems = 0 /\ dropped = FALSE
    /\ resp = NoResponse

\* a ForwardContinuity stage is constructed for some block of the chain
InitForwardContinuity ==
    /\ NoStream
    /\ \E next \in {0, FirstBlock}, parent_hash \in BlockHashes :
        /\ stage = ForwardContinuityNew(next, parent_hash)
        /\ mapped = [NotMapped EXCEPT !.new = stage]
        /\ NoStore
        /\ NoDirectory
        /\ NoWebsocket
        /\ NoFlow

NextForwardContinuity == ForwardContinuityMap

SpecForwardContinuity ==
    InitForwardContinuity /\ [][NextForwardContinuity]_vars

----------------------------------------------------------------------------
(* The backward continuity stage of the header sync: sync/headers.rs *)

\* BlockNumber::parent(), with genesis taken for a block that has one
ParentOfGenesisIsGenesis(n) == IF n = 0 THEN Some(0) ELSE Some(n - 1)

\* BlockNumber::parent(): None for genesis
Parent(n) == IF n = 0 THEN None ELSE Some(n - 1)

\* BackwardContinuity::new(number, hash)
BackwardContinuityNew(number, hash) ==
    [NAME |-> "Headers::Continuity", number |-> Some(number), hash |-> hash]

\* `self.number.ok_or(SyncError2::Discontinuity)?` fails, or
\* `input.header.number != number || input.header.hash != self.hash`
BackwardDiscontinuity(self, header) ==
    \/ ~IsSome(self.number)
    \/ header.number # Unwrap(self.number)
    \/ header.hash # self.hash

\* The fields of BackwardContinuity after map took header without a
\* Discontinuity: `self.number = number.parent(); self.hash =
\* input.header.parent_hash`.
BackwardContinuityAdvance(self, header) ==
    [self EXCEPT !.number = Parent(Unwrap(self.number)),
                 !.hash = header.parent_hash]

\* BackwardContinuity::map(input)
BackwardContinuityMap ==
    /\ stage.NAME = "Headers::Continuity"
    /\ \E input \in SignedBlockHeaders :
        IF BackwardDiscontinuity(stage, input)
        THEN /\ mapped' = [mapped EXCEPT !.input = Some(input),
                                         !.result = "Discontinuity"]
             /\ UNCHANGED stage
        ELSE /\ stage' = BackwardContinuityAdvance(stage, input)
             /\ mapped' = [mapped EXCEPT !.input = Some(input),
                                         !.result = "Ok",
                                         !.ok = Append(mapped.ok, input)]
    /\ UNCHANGED notStageVars

\* a BackwardContinuity stage is constructed for some block of the chain
InitBackwardContinuity ==
    /\ NoStream
    /\ \E number \in {0, FirstBlock}, hash \in BlockHashes :
        /\ stage = BackwardContinuityNew(number, hash)
        /\ mapped = [NotMapped EXCEPT !.new = stage]
        /\ NoStore
        /\ NoDirectory
        /\ NoWebsocket
        /\ NoFlow

NextBackwardContinuity == BackwardContinuityMap

SpecBackwardContinuity ==
    InitBackwardContinuity /\ [][NextBackwardContinuity]_vars

----------------------------------------------------------------------------
(* The verification stage of the header sync: sync/headers.rs *)

\* The signed headers given to VerifyHashAndSignature: besides the fields
\* of the header, what the block hash computation makes of them (a hash, or
\* "error" when it fails) and whether the signature verifies under the
\* public key.
HashedBlockHeaders ==
    [number : {0, FirstBlock}, hash : BlockHashes, parent_hash : BlockHashes,
     recomputed : BlockHashes \cup {"error"}, signature_ok : BOOLEAN]

\* verify_block_hash(BlockHeaderData {..}, chain, chain_id)
VerifyBlockHash(header) ==
    IF header.recomputed = "error" THEN "Err"
    ELSE IF header.recomputed = header.hash THEN "Match"
    ELSE "Mismatch"

\* verify_hash with every header taken as matching
VerifyHashAccepts(header) == TRUE

\* VerifyHashAndSignature::verify_hash
VerifyHash(header) == VerifyBlockHash(header) = "Match"

\* VerifyHashAndSignature::verify_signature
VerifySignature(header) == header.signature_ok

\* VerifyHashAndSignature::new(chain, chain_id, public_key)
VerifyHashAndSignatureNew == [NAME |-> "Headers::Verify"]

\* map returns Ok(input)
VerifyPassed(input) ==
    mapped' = [mapped EXCEPT !.input = Some(input), !.result = "Ok",
                             !.ok = <<input>>]

\* VerifyHashAndSignature::map(input): a signature that does not verify is
\* written to the debug log and the input is returned all the same
VerifyHashAndSignatureMap ==
    /\ stage.NAME = "Headers::Verify"
    /\ \E input \in HashedBlockHeaders :
        IF ~VerifyHash(input)
        THEN mapped' = [mapped EXCEPT !.input = Some(input),
                                      !.result = "BadBlockHash",
                                      !.ok = <<>>]
        ELSE IF ~VerifySignature(input)
             THEN VerifyPassed(input)
             ELSE VerifyPassed(input)
    /\ UNCHANGED stage
    /\ UNCHANGED notStageVars

InitVerifyHashAndSignature ==
    /\ NoStream
    /\ stage = VerifyHashAndSignatureNew
    /\ mapped = [NotMapped EXCEPT !.new = stage]
    /\ NoStore
    /\ NoDirectory
    /\ NoWebsocket
    /\ NoFlow

NextVerifyHashAndSignature == VerifyHashAndSignatureMap

SpecVerifyHashAndSignature ==
    InitVerifyHashAndSignature /\ [][NextVerifyHashAndSignature]_vars

----------------------------------------------------------------------------
(* The header gap finder: next_gap of sync/headers.rs *)

\* BlockNumber::GENESIS and BlockHash::ZERO
GENESIS == 0
ZERO == <<>>

\* the block numbers of the chain that may be stored
StoredNumbers == GENESIS..MaxHeight

\* The chain's header of block n as a row of block_headers: its hash, and
\* as parent hash the hash of the block before it, ZERO for genesis.
ChainHash(n) == <<n>>
ChainHeader(n) ==
    [hash |-> ChainHash(n),
     parent_hash |-> IF n = GENESIS THEN ZERO ELSE ChainHash(n - 1)]

\* a database that holds the chain's headers of the blocks in S
StorageOf(S) ==
    [block_headers |-> [n \in S |-> ChainHeader(n)],
     signatures |-> [n \in S |-> n],
     state_diff_commitment_and_length |-> [n \in S |-> n]]

\* the largest number of a non-empty set of block numbers
Highest(S) == CHOOSE n \in S : \A m \in S : m <= n

\* db.block_exists(n)
BlockExists(d, n) == n \in DOMAIN d.block_headers

\* db.block_exists with every block taken as stored
BlockExistsAlways(d, n) == TRUE

\* `db.block_exists(head.into())` of next_gap
HeadExists(d, head) == BlockExists(d, head)

\* db.next_ancestor_without_parent(target): the highest stored block up to
\* target whose parent is not stored, never genesis
NextAncestorWithoutParent(d, target) ==
    LET S == {n \in DOMAIN d.block_headers :
                 n <= target /\ n # GENESIS
                 /\ n - 1 \notin DOMAIN d.block_headers}
    IN  IF S = {} THEN None
        ELSE Some(<<Highest(S), d.block_headers[Highest(S)].hash>>)

\* db.next_ancestor(target): the highest stored block below target
NextAncestor(d, target) ==
    LET S == {n \in DOMAIN d.block_headers : n < target}
    IN  IF S = {} THEN None
        ELSE Some(<<Highest(S), d.block_headers[Highest(S)].hash>>)

\* the tail of the gap at the ancestor itself
GapTailAtAncestor(ancestor) ==
    IF IsSome(ancestor)
    THEN <<Unwrap(ancestor)[1], Unwrap(ancestor)[2]>>
    ELSE <<GENESIS, ZERO>>

\* `match db.next_ancestor(head) { Some((tail, tail_hash)) => (tail + 1,
\* tail_hash), None => (BlockNumber::GENESIS, BlockHash::ZERO) }`
GapTail(ancestor) ==
    IF IsSome(ancestor)
    THEN <<Unwrap(ancestor)[1] + 1, Unwrap(ancestor)[2]>>
    ELSE <<GENESIS, ZERO>>

\* the HeaderGap from a head and the tail below it
HeaderGap(d, head, head_hash) ==
    LET t == GapTail(NextAncestor(d, head))
    IN  [head |-> head, head_hash |-> head_hash,
         tail |-> t[1], tail_parent_hash |-> t[2]]

\* next_gap(storage, head, head_hash) when no database call fails
NextGap(d, head, head_hash) ==
    IF HeadExists(d, head)
    THEN LET gap_head == NextAncestorWithoutParent(d, head)
         IN  IF ~IsSome(gap_head) THEN None
             ELSE Some(HeaderGap(
                      d, Unwrap(gap_head)[1] - 1,
                      d.block_headers[Unwrap(gap_head)[1]].parent_hash))
    ELSE Some(HeaderGap(d, head, head_hash))

\* the hashes a caller may give for the search head: the chain's, or the
\* one of another chain
HeadHashes(head) == {ChainHash(head), <<head, head>>}

\* next_gap is called and returns Ok
NextGapOk ==
    /\ call.fn \in {"new", "next_gap"}
    /\ \E head \in StoredNumbers : \E head_hash \in HeadHashes(head) :
        call' = [fn |-> "next_gap", head |-> head, head_hash |-> head_hash,
                 ok |-> TRUE, result |-> NextGap(db, head, head_hash)]
    /\ UNCHANGED <<db, notStoreVars>>

\* next_gap is called and a database call fails: the error is returned
NextGapErr ==
    /\ call.fn \in {"new", "next_gap"}
    /\ \E head \in StoredNumbers : \E head_hash \in HeadHashes(head) :
        call' = [fn |-> "next_gap", head |-> head, head_hash |-> head_hash,
                 ok |-> FALSE, result |-> None]
    /\ UNCHANGED <<db, notStoreVars>>

\* a database with the chain's headers of some blocks
InitNextGap ==
    /\ NoStream
    /\ stage = NoStage
    /\ mapped = NotMapped
    /\ \E S \in SUBSET StoredNumbers : db = StorageOf(S)
    /\ call = [fn |-> "new"]
    /\ NoDirectory
    /\ NoWebsocket
    /\ NoFlow

NextNextGap == NextGapOk \/ NextGapErr

SpecNextGap == InitNextGap /\ [][NextNextGap]_vars

----------------------------------------------------------------------------
(* The Persist stage of the header sync: sync/headers.rs *)

\* the chain's SignedBlockHeader of block n as Persist takes it
SignedHeader(n) ==
    [header |-> [number |-> n, hash |-> ChainHeader(n).hash,
                 parent_hash |-> ChainHeader(n).parent_hash],
     signature |-> n, state_diff_commitment |-> n, state_diff_length |-> n]

\* the block numbers of the headers that a Persist stage is run on
PersistNumbers == GENESIS..(MaxHeaders + 1)

\* The batches given to Persist::map: up to MaxHeaders headers of distinct
\* blocks that are not stored.
RECURSIVE Batches(_, _)
Batches(free, len) ==
    IF len = 0 THEN {<<>>}
    ELSE {<<>>} \cup
         UNION {{<<SignedHeader(n)>> \o b : b \in Batches(free \ {n}, len - 1)}
                : n \in free}

\* a table with the row of key k set to v
Upsert(table, k, v) ==
    [x \in DOMAIN table \cup {k} |-> IF x = k THEN v ELSE table[x]]

\* The statements of the loop's body in order, on the tables t of the
\* transaction, for the input h.
Statements ==
    <<"insert_block_header", "insert_signature",
      "update_state_diff_commitment_and_length">>

Execute(t, statement, h) ==
    IF statement = "insert_block_header"
    THEN [t EXCEPT !.block_headers =
             Upsert(@, h.header.number,
                    [hash |-> h.header.hash,
                     parent_hash |-> h.header.parent_hash])]
    ELSE IF statement = "insert_signature"
    THEN [t EXCEPT !.signatures = Upsert(@, h.header.number, h.signature)]
    ELSE [t EXCEPT !.state_diff_commitment_and_length =
             Upsert(@, h.header.number, h.state_diff_commitment)]

\* the loop over the input is left after its first header
LoopDoneAfterFirst(c) == c.pos > 1 \/ c.pos > Len(c.input)

\* `for SignedBlockHeader {..} in input` has taken every header
LoopDone(c) == c.pos > Len(c.input)

\* Persist::map(input) is called: `self.connection.transaction()`
PersistBegin ==
    /\ call.fn = "new" \/ (call.fn = "Persist::map" /\ call.result # "none")
    /\ \E input \in Batches(PersistNumbers \ DOMAIN db.block_headers,
                            MaxHeaders) :
        call' = [fn |-> "Persist::map", input |-> input, before |-> db,
                 tx |-> db, pos |-> 1, statement |-> 1, result |-> "none"]
    /\ UNCHANGED <<db, notStoreVars>>

\* the next statement of the loop's body succeeds within the transaction
PersistStatement ==
    /\ call.fn = "Persist::map"
    /\ call.result = "none"
    /\ ~LoopDone(call)
    /\ call' = [call EXCEPT
                   !.tx = Execute(@, Statements[call.statement],
                                  call.input[call.pos]),
                   !.statement = IF @ = Len(Statements) THEN 1 ELSE @ + 1,
                   !.pos = IF call.statement = Len(Statements)
                           THEN @ + 1 ELSE @]
    /\ UNCHANGED <<db, notStoreVars>>

\* `tx.commit()` succeeds and map returns Ok(())
PersistCommit ==
    /\ call.fn = "Persist::map"
    /\ call.result = "none"
    /\ LoopDone(call)
    /\ db' = call.tx
    /\ call' = [call EXCEPT !.result = "Ok"]
    /\ UNCHANGED notStoreVars

\* opening the transaction, a statement or the commit fails: `?` returns
\* the error and the transaction is dropped without a commit
PersistError ==
    /\ call.fn = "Persist::map"
    /\ call.result = "none"
    /\ call' = [call EXCEPT !.result = "Err"]
    /\ UNCHANGED <<db, notStoreVars>>

\* a Persist stage on a database with the chain's headers of some blocks
InitPersist ==
    /\ NoStream
    /\ stage = NoStage
    /\ mapped = NotMapped
    /\ \E S \in SUBSET PersistNumbers : db = StorageOf(S)
    /\ call = [fn |-> "new"]
    /\ NoDirectory
    /\ NoWebsocket
    /\ NoFlow

NextPersist ==
    PersistBegin \/ PersistStatement \/ PersistCommit \/ PersistError

SpecPersist == InitPersist /\ [][NextPersist]_vars

----------------------------------------------------------------------------
(* The peer directory: PeersWithCapability and
   get_update_peers_with_sync_capability of peer_agnostic.rs *)

\* the tasks that call get_update_peers_with_sync_capability
Tasks == {"t1", "t2"}

\* the capabilities looked up and the peer ids; Self is inner.peer_id()
Capabilities == {"headers", "transactions"}
Self == "self"
PeerIds == {Self, "p1"}

\* What inner.get_capability_providers(capability) returns: the providers,
\* the node itself among them, or an error.
ProviderResults == {Some(S \cup {Self}) : S \in SUBSET PeerIds} \cup {None}

\* Result::unwrap_or_default()
UnwrapOrDefault(r) == IF IsSome(r) THEN Unwrap(r) ELSE {}

\* PeersWithCapability::new(timeout), at the time t
PeersWithCapabilityNew(t) == [set |-> <<>>, last_update |-> t]

\* PeersWithCapability::get(capability) at the time t
PeersWithCapabilityGet(self, capability, t) ==
    IF t - self.last_update > TimeoutTicks THEN None
    ELSE IF capability \in DOMAIN self.set THEN Some(self.set[capability])
    ELSE None

\* PeersWithCapability::update(capability, peers) at the time t
PeersWithCapabilityUpdate(self, capability, peers, t) ==
    [set |-> MapInsert(self.set, capability, peers), last_update |-> t]

\* RwLock::new
RwLockNew == [readers |-> {}, writer |-> None, queue |-> <<>>]

\* `.read().await` or `.write().await` is called: the task queues up
Enqueue(l, t, kind) ==
    [l EXCEPT !.queue = Append(@, [task |-> t, kind |-> kind])]

\* whether the lock is given to the task t next: it is the first in the
\* queue, no task holds the write guard and, for the write guard, none
\* holds a read guard
Grantable(l, t, kind) ==
    /\ l.queue # <<>>
    /\ Head(l.queue) = [task |-> t, kind |-> kind]
    /\ l.writer = None
    /\ kind = "write" => l.readers = {}

\* a miss that keeps the read guard
ReadersAfterMissKept(readers, t) == readers

\* `drop(r)` of the miss path
ReadersAfterMiss(readers, t) == readers \ {t}

\* a task outside get_update_peers_with_sync_capability
IdleTask ==
    [pc |-> "idle", capability |-> "headers", peers |-> {},
     missed |-> FALSE, assertion |-> "none", age |-> 0]

\* the task t: `self.peers_with_capability.read().await` is called
DirCall(t) ==
    /\ tasks[t].pc = "idle"
    /\ \E capability \in Capabilities :
        tasks' = [tasks EXCEPT ![t] = [IdleTask EXCEPT
                                          !.pc = "read",
                                          !.capability = capability]]
    /\ rwlock' = Enqueue(rwlock, t, "read")
    /\ UNCHANGED <<peers_with_capability, now, cached_at, notDirVars>>

\* the task t gets the read guard r
DirReadGranted(t) ==
    /\ tasks[t].pc = "read"
    /\ Grantable(rwlock, t, "read")
    /\ rwlock' = [rwlock EXCEPT !.queue = Tail(@), !.readers = @ \cup {t}]
    /\ tasks' = [tasks EXCEPT ![t].pc = "get"]
    /\ UNCHANGED <<peers_with_capability, now, cached_at, notDirVars>>

\* the task t: `if let Some(peers) = r.get(capability)`
DirGet(t) ==
    /\ tasks[t].pc = "get"
    /\ LET g == PeersWithCapabilityGet(peers_with_capability,
                                       tasks[t].capability, now)
       IN  tasks' = [tasks EXCEPT ![t] =
               IF IsSome(g)
               THEN [@ EXCEPT !.pc = "hit", !.peers = Unwrap(g),
                              !.age = now - cached_at[tasks[t].capability]]
               ELSE [@ EXCEPT !.pc = "miss", !.missed = TRUE]]
    /\ UNCHANGED <<peers_with_capability, rwlock, now, cached_at,
                   notDirVars>>

\* the task t returns its peers, the cached ones, shuffled; r is dropped on
\* return
DirHitReturn(t) ==
    /\ tasks[t].pc = "hit"
    /\ rwlock' = [rwlock EXCEPT !.readers = @ \ {t}]
    /\ tasks' = [tasks EXCEPT ![t] = IdleTask]
    /\ UNCHANGED <<peers_with_capability, now, cached_at, notDirVars>>

\* the task t, on a miss: `drop(r)`
DirDropRead(t) ==
    /\ tasks[t].pc = "miss"
    /\ rwlock' = [rwlock EXCEPT !.readers = ReadersAfterMiss(@, t)]
    /\ tasks' = [tasks EXCEPT ![t].pc = "lookup"]
    /\ UNCHANGED <<peers_with_capability, now, cached_at, notDirVars>>

\* The task t: get_capability_providers returns, the own id is removed and
\* asserted to have been there, and `.write().await` is called; a failed
\* debug_assert! panics in a debug build and is nothing in a release build.
DirLookup(t) ==
    /\ tasks[t].pc = "lookup"
    /\ \E r \in ProviderResults, debug \in BOOLEAN :
        LET peers == UnwrapOrDefault(r)
            _i_should_have_the_capability_too == Self \in peers
            panics == debug /\ ~_i_should_have_the_capability_too
        IN  /\ tasks' = [tasks EXCEPT ![t] =
                   [@ EXCEPT !.pc = IF panics THEN "panic" ELSE "write",
                             !.peers = peers \ {Self},
                             !.assertion =
                                 IF _i_should_have_the_capability_too
                                 THEN "held" ELSE "failed"]]
            /\ rwlock' = IF panics THEN rwlock
                         ELSE Enqueue(rwlock, t, "write")
    /\ UNCHANGED <<peers_with_capability, now, cached_at, notDirVars>>

\* the task t gets the write guard w
DirWriteGranted(t) ==
    /\ tasks[t].pc = "write"
    /\ Grantable(rwlock, t, "write")
    /\ rwlock' = [rwlock EXCEPT !.queue = Tail(@), !.writer = Some(t)]
    /\ tasks' = [tasks EXCEPT ![t].pc = "update"]
    /\ UNCHANGED <<peers_with_capability, now, cached_at, notDirVars>>

\* the task t: `w.update(capability, peers)`, w is dropped and the task
\* returns its peers, the ones fetched, shuffled
DirUpdate(t) ==
    /\ tasks[t].pc = "update"
    /\ peers_with_capability' =
          PeersWithCapabilityUpdate(peers_with_capability,
                                    tasks[t].capability, tasks[t].peers, now)
    /\ cached_at' = MapInsert(cached_at, tasks[t].capability, now)
    /\ rwlock' = [rwlock EXCEPT !.writer = None]
    /\ tasks' = [tasks EXCEPT ![t] = IdleTask]
    /\ UNCHANGED <<now, notDirVars>>

\* time passes
DirTick ==
    /\ rwlock # <<>>
    /\ now < MaxTime
    /\ now' = now + 1
    /\ UNCHANGED <<peers_with_capability, rwlock, tasks, cached_at,
                   notDirVars>>

\* a step of a task that is inside get_update_peers_with_sync_capability
DirTaskStep(t) ==
    \/ DirReadGranted(t)
    \/ DirGet(t)
    \/ DirHitReturn(t)
    \/ DirDropRead(t)
    \/ DirLookup(t)
    \/ DirWriteGranted(t)
    \/ DirUpdate(t)

\* Client::new: an empty directory, and the tasks before their calls
InitDirectory ==
    /\ NoStream
    /\ stage = NoStage
    /\ mapped = NotMapped
    /\ NoStore
    /\ now = 0
    /\ peers_with_capability = PeersWithCapabilityNew(now)
    /\ rwlock = RwLockNew
    /\ tasks = [t \in Tasks |-> IdleTask]
    /\ cached_at = <<>>
    /\ NoWebsocket
    /\ NoFlow

NextDirectory ==
    \/ \E t \in Tasks : DirCall(t) \/ DirTaskStep(t)
    \/ DirTick

SpecDirectory == InitDirectory /\ [][NextDirectory]_vars

----------------------------------------------------------------------------
(* state_diff_for_block of peer_agnostic.rs: the state diff of one block,
   from the first peer that ends its response with Fin *)

\* StateDiffsResponse::Fin
Fin == [kind |-> "Fin"]

\* nothing taken from the current peer yet
NoResponses == [response |-> <<>>, flip |-> 0, taken |-> <<>>]

\* `Some(resp) = stream.next().await`: the response r is the last one
\* taken, and the data responses taken from the current peer in order
Taken(r) ==
    [response |-> r, flip |-> 1 - resp.flip,
     taken |-> IF r = Fin THEN resp.taken ELSE Append(resp.taken, r)]

\* the variables state_diff_for_block has no use for
sdbUnused ==
    <<inputVars, start, cs_pos, current_count_outer, current_commitment,
      transactions, class_definitions, events, current_txn_hash, corrupt,
      nitems, dropped, syncVars>>

\* the function returns the value res
SdbReturn(res, why) ==
    /\ pc' = "done"
    /\ out' = <<res>>
    /\ last' = why

\* `return Err(IncorrectStateDiffCount(peer))`
SdbErr ==
    /\ SdbReturn([result |-> "Err", peer |-> peer], "err")
    /\ errs' = 1

\* Fin is taken as the end of a whole state diff whatever the counter is
FinCompleteAlways(count) == TRUE

\* `if current_count != 0 { return Err(..) }` of the Fin arm does not return
FinComplete(count) == count = 0

\* the request for the one block is built and the peers are looked up:
\* `let peers = self.get_update_peers_with_sync_capability(..).await`
SdbGetPeers ==
    /\ engine = "sdb"
    /\ pc = "get_peers"
    /\ pc' = "next_peer"
    /\ request' = Some([start |-> start, limit |-> 1])
    /\ last' = "get_peers"
    /\ UNCHANGED <<current_count, state_diff, peer, out, errs, resp,
                   sdbUnused>>

\* `for peer in peers`: send_state_diffs_sync_request returns Err, `continue`
SdbSendRequestFails ==
    /\ engine = "sdb"
    /\ pc = "next_peer"
    /\ peer < MaxAttempts
    /\ peer' = peer + 1
    /\ last' = "send_failed"
    /\ UNCHANGED <<pc, current_count, state_diff, request, out, errs, resp,
                   sdbUnused>>

\* send_state_diffs_sync_request returns the stream: `let mut current_count
\* = state_diff_length; let mut state_diff = StateUpdateData::default()`
SdbSendRequestOk ==
    /\ engine = "sdb"
    /\ pc = "next_peer"
    /\ peer < MaxAttempts
    /\ peer' = peer + 1
    /\ current_count' = Unwrap(current_count_outer)
    /\ state_diff' = DefaultStateUpdateData
    /\ resp' = [NoResponses EXCEPT !.flip = resp.flip]
    /\ pc' = "recv"
    /\ last' = "request"
    /\ UNCHANGED <<request, out, errs, sdbUnused>>

\* the list of peers, of any length, has no peer left: `Ok(None)`
SdbNoPeerLeft ==
    /\ engine = "sdb"
    /\ pc = "next_peer"
    /\ SdbReturn([result |-> "Ok(None)"], "ok_none")
    /\ UNCHANGED <<current_count, state_diff, peer, request, errs, resp,
                   sdbUnused>>

\* a ContractDiff or a DeclaredClass arrives; at most MaxResponses are
\* taken from a peer
SdbRecvDiff ==
    /\ engine = "sdb"
    /\ pc = "recv"
    /\ Len(resp.taken) < MaxResponses
    /\ \E r \in StateDiffResponses :
        LET a == ApplyStateDiffResponse(current_count, state_diff, r)
        IN  /\ resp' = Taken(r)
            /\ IF a.over
               THEN /\ SdbErr
                    /\ UNCHANGED <<current_count, state_diff>>
               ELSE /\ current_count' = a.count
                    /\ state_diff' = a.sd
                    /\ last' = "response"
                    /\ UNCHANGED <<pc, out, errs>>
    /\ UNCHANGED <<peer, request, sdbUnused>>

\* Fin arrives
SdbRecvFin ==
    /\ engine = "sdb"
    /\ pc = "recv"
    /\ resp' = Taken(Fin)
    /\ IF ~FinComplete(current_count)
       THEN SdbErr
       ELSE /\ SdbReturn([result |-> "Ok(Some)", peer |-> peer,
                          state_diff |-> state_diff], "ok_some")
            /\ UNCHANGED errs
    /\ UNCHANGED <<current_count, state_diff, peer, request, sdbUnused>>

\* the stream ends without Fin: the next peer is asked
SdbRecvNone ==
    /\ engine = "sdb"
    /\ pc = "recv"
    /\ pc' = "next_peer"
    /\ last' = "closed"
    /\ UNCHANGED <<current_count, state_diff, peer, request, out, errs, resp,
                   sdbUnused>>

\* state_diff_for_block(block, state_diff_length) is called
InitSdb ==
    /\ engine = "sdb"
    /\ start0 = FirstBlock /\ start = start0 /\ stop = start0
    /\ reverse = FALSE
    /\ cs = <<>> /\ cs_pos = 0
    /\ current_count_outer \in {Some(n) : n \in 0..MaxCount}
    /\ current_count = 0
    /\ current_commitment = DefaultCommitment
    /\ transactions = <<>>
    /\ state_diff = DefaultStateUpdateData
    /\ class_definitions = <<>>
    /\ events = <<>>
    /\ current_txn_hash = None
    /\ peer = 0 /\ request = None
    /\ out = <<>> /\ errs = 0
    /\ pc = "get_peers"
    /\ last = "init"
    /\ corrupt = 0 /\ nitems = 0 /\ dropped = FALSE
    /\ resp = NoResponses
    /\ stage = NoStage
    /\ mapped = NotMapped
    /\ NoStore
    /\ NoDirectory
    /\ NoWebsocket
    /\ NoFlow

NextSdb ==
    \/ SdbGetPeers
    \/ SdbSendRequestFails
    \/ SdbSendRequestOk
    \/ SdbNoPeerLeft
    \/ SdbRecvDiff
    \/ SdbRecvFin
    \/ SdbRecvNone

SpecSdb == InitSdb /\ [][NextSdb]_vars

----------------------------------------------------------------------------
(* The websocket of the RPC router (subscription.rs): the task of
   handle_json_rpc_socket, handle_request, and the task that invoke spawns
   for each subscription *)

\* the subscription ids that SubscriptionId::next() gives out
SubscriptionIds == 0..(MaxSubscriptions - 1)

\* A request as handle_request tells them apart: one without an id, one it
\* answers without starting or ending a subscription (a method of
\* method_endpoints, a method not found, bad params of
\* starknet_unsubscribe), a starknet_unsubscribe, and one for a
\* subscription endpoint, whose params invoke accepts or not.
RpcRequests ==
    {[method |-> "notification"], [method |-> "other"]}
      \cup {[method |-> "starknet_unsubscribe", subscription_id |-> id] :
              id \in SubscriptionIds}
      \cup {[method |-> "subscribe", input |-> i] : i \in {"valid", "invalid"}}

\* What ws_rx.recv() gives: a text that is one request, a text that is a
\* batch of at most MaxBatch requests, a text or binary that does not
\* parse, or the end of the websocket. The requests themselves are drawn
\* when handle_request takes them.
WsMessages ==
    {[kind |-> "text", batch |-> FALSE, len |-> 1]}
      \cup {[kind |-> "text", batch |-> TRUE, len |-> n] : n \in 0..MaxBatch}
      \cup {[kind |-> "invalid"], [kind |-> "close"]}

\* the messages placed on the websocket send channel
ParseError == [kind |-> "parse_error"]
EmptyBatch == [kind |-> "invalid_request"]
Responses(batch, rs) == [kind |-> "responses", batch |-> batch, responses |-> rs]
Notification(id) == [kind |-> "notification", subscription_id |-> id]
SubscriptionError(id) == [kind |-> "error", subscription_id |-> id]

\* the results of handle_request
NotHandled == [output |-> "not_handled"]
NoResponseNeeded == [output |-> "none"]
Subscribed(id) == [output |-> "subscription_id", subscription_id |-> id]
Unsubscribed(id) == [output |-> "true", subscription_id |-> id]
RpcErrorResponse == [output |-> "error"]

\* `mpsc::Sender::send`: the message is placed unless the receiver is
\* gone; the send waits while the channel has no room, and at most
\* MaxSent messages are placed in a run
WsSendOk == ~ws_tx.closed
WsSend(m) ==
    /\ ws_tx.closed \/ Len(ws_tx.sent) < MaxSent
    /\ ws_tx' = IF WsSendOk THEN [ws_tx EXCEPT !.sent = Append(@, m)]
                ELSE ws_tx

\* the handler between two messages, holding no guard
HandlerIdle(n) == [pc |-> "recv", received |-> n, guard |-> FALSE,
                   batch |-> FALSE, responses |-> <<>>]

\* `break` and `return` of the loop
HandlerReturned == [HandlerIdle(0) EXCEPT !.pc = "returned"]

\* the end of an iteration after a send: `continue`, or `break` if the
\* send failed
HandlerAfterSend(n) == IF WsSendOk THEN HandlerIdle(n) ELSE HandlerReturned

\* The lock a task holds a clone of: the one made for the message that is
\* being handled, or the one of an earlier message, which no write guard
\* exists of any more.
ThisMessage == "this message"
EarlierMessage == "an earlier message"

\* no task is spawned for a subscription id
NoTask == [pc |-> "none", lock |-> EarlierMessage, phase |-> "none",
           aborted |-> FALSE]

\* the iteration of the handler's loop ends: `_guard` and `lock` are
\* dropped
EndOfIteration(ts) ==
    [id \in DOMAIN ts |-> [ts[id] EXCEPT !.lock = EarlierMessage]]

\* a task that has returned, or is cancelled
TaskReturned == [NoTask EXCEPT !.pc = "returned"]

\* `handle.abort()`: the task is cancelled at the await it is at; a task
\* inside SubscriptionSender::send, past contains_key, either is cancelled
\* at the await of the channel's send or is already past it
Abort(t) ==
    IF t.pc = "place" THEN [t EXCEPT !.aborted = TRUE] ELSE TaskReturned

\* the read guard of the task's lock is given out although the handler
\* holds the write guard
ReadGrantedAlways(t) == TRUE

\* `lock.read().await` of the task returns: nobody holds the write guard
\* of its lock (the lock of the message whose handling spawned it)
ReadGranted(t) == ~(handler.guard /\ t.lock = ThisMessage)

\* `ws_rx.recv().await` and what follows up to the first await after it
HandlerRecv ==
    /\ handler.pc = "recv"
    /\ handler.received < MaxMessages
    /\ \E m \in WsMessages :
        CASE m.kind = "close" ->
               /\ handler' = HandlerReturned
               /\ UNCHANGED ws_tx
          [] m.kind = "invalid" ->
               \* parse_error for a binary that is not UTF-8 (before the
               \* lock is made) or for a text that is not JSON
               /\ WsSend(ParseError)
               /\ handler' = HandlerAfterSend(handler.received + 1)
          [] m.kind = "text" /\ m.len = 0 ->
               \* the empty batch: invalid_request, then the empty
               \* run_concurrently and `continue`
               /\ WsSend(EmptyBatch)
               /\ handler' = HandlerAfterSend(handler.received + 1)
          [] OTHER ->
               \* `let _guard = lock.write().await` on the new lock
               /\ handler' = [pc |-> "handle_request",
                              received |-> handler.received + 1,
                              guard |-> TRUE, batch |-> m.batch,
                              responses |-> [i \in 1..m.len |-> NotHandled]]
               /\ UNCHANGED ws_tx
    /\ UNCHANGED <<subscriptions, subscription_tasks, next_subscription_id,
                   notWsVars>>

\* handle_request on the request r at place i of the message; the
\* requests of a batch are handled in any order
HandleRequest(i, r) ==
    /\ handler.pc = "handle_request"
    /\ i \in DOMAIN handler.responses
    /\ handler.responses[i] = NotHandled
    /\ LET answer(x) == handler' = [handler EXCEPT !.responses[i] = x]
       IN  CASE r.method = "notification" ->
                  /\ answer(NoResponseNeeded)
                  /\ UNCHANGED <<subscriptions, subscription_tasks,
                                 next_subscription_id>>
             [] r.method = "other" ->
                  /\ answer(RpcErrorResponse)
                  /\ UNCHANGED <<subscriptions, subscription_tasks,
                                 next_subscription_id>>
             [] r.method = "starknet_unsubscribe" ->
                  IF r.subscription_id \in subscriptions
                  THEN \* `subscriptions.remove(..)`, `handle.abort()`
                       /\ subscriptions' = subscriptions \ {r.subscription_id}
                       /\ subscription_tasks' =
                            [subscription_tasks EXCEPT
                               ![r.subscription_id] = Abort(@)]
                       /\ answer(Unsubscribed(r.subscription_id))
                       /\ UNCHANGED next_subscription_id
                  ELSE \* "Subscription not found"
                       /\ answer(RpcErrorResponse)
                       /\ UNCHANGED <<subscriptions, subscription_tasks,
                                      next_subscription_id>>
             [] OTHER ->
                  \* `SubscriptionId::next()`, then invoke
                  /\ next_subscription_id < MaxSubscriptions
                  /\ next_subscription_id' = next_subscription_id + 1
                  /\ IF r.input = "invalid"
                     THEN /\ answer(RpcErrorResponse)
                          /\ UNCHANGED <<subscriptions, subscription_tasks>>
                     ELSE \* `tokio::spawn(..)`, `subscriptions.insert(..)`
                          /\ subscription_tasks' =
                               [subscription_tasks EXCEPT
                                  ![next_subscription_id] =
                                     [NoTask EXCEPT !.pc = "lock_read",
                                                    !.lock = ThisMessage]]
                          /\ subscriptions' =
                               subscriptions \cup {next_subscription_id}
                          /\ answer(Subscribed(next_subscription_id))
    /\ UNCHANGED <<ws_tx, notWsVars>>

\* the responses that are sent: those of the requests with an id
RECURSIVE Flatten(_)
Flatten(rs) ==
    IF rs = <<>> THEN <<>>
    ELSE IF Head(rs) = NoResponseNeeded THEN Flatten(Tail(rs))
         ELSE <<Head(rs)>> \o Flatten(Tail(rs))

\* Every request of the message is handled: the response, or the array of
\* the responses of the batch, is sent unless there is none, and the
\* iteration ends, which drops the write guard.
HandlerRespond ==
    /\ handler.pc = "handle_request"
    /\ \A i \in DOMAIN handler.responses : handler.responses[i] # NotHandled
    /\ LET rs == Flatten(handler.responses)
       IN  IF rs = <<>>
           THEN /\ handler' = HandlerIdle(handler.received)
                /\ UNCHANGED ws_tx
           ELSE /\ WsSend(Responses(handler.batch, rs))
                /\ handler' = HandlerAfterSend(handler.received)
    /\ subscription_tasks' = EndOfIteration(subscription_tasks)
    /\ UNCHANGED <<subscriptions, next_subscription_id, notWsVars>>

\* the task of split_ws that takes the messages off the channel ends
\* (the websocket does not take a message): the receiver is dropped
WsReceiverDropped ==
    /\ handler # <<>>
    /\ ~ws_tx.closed
    /\ ws_tx' = [ws_tx EXCEPT !.closed = TRUE]
    /\ UNCHANGED <<handler, subscriptions, subscription_tasks,
                   next_subscription_id, notWsVars>>

\* the task of subscription id is where a step of it can be taken
TaskAt(id, where) ==
    /\ handler # <<>>
    /\ id \in SubscriptionIds
    /\ subscription_tasks[id].pc = where
    /\ ~subscription_tasks[id].aborted

TaskBecomes(id, t) ==
    /\ subscription_tasks' = [subscription_tasks EXCEPT ![id] = t]
    /\ UNCHANGED <<handler, subscriptions, next_subscription_id, notWsVars>>

\* `let _guard = lock.read().await`
TaskLockRead(id) ==
    /\ TaskAt(id, "lock_read")
    /\ ReadGranted(subscription_tasks[id])
    /\ TaskBecomes(id, [subscription_tasks[id] EXCEPT !.pc = "catch_up",
                                                      !.phase = "batches"])
    /\ UNCHANGED ws_tx

\* `T::catch_up(..).await`, of the loop or of the blocks before the first
\* update: an error, which send_err places on the channel before the task
\* returns, or a list of messages, which may be empty
TaskCatchUp(id) ==
    LET t == subscription_tasks[id]
    IN  /\ TaskAt(id, "catch_up")
        /\ \/ /\ WsSend(SubscriptionError(id))
              /\ TaskBecomes(id, TaskReturned)
           \/ /\ UNCHANGED ws_tx
              /\ \E empty \in BOOLEAN :
                  TaskBecomes(id,
                    IF ~empty THEN [t EXCEPT !.pc = "send"]
                    ELSE IF t.phase = "batches"
                         THEN [t EXCEPT !.pc = "subscribe"]
                         ELSE [t EXCEPT !.pc = "send", !.phase = "first"])

\* `tokio::spawn(T::subscribe(..))` and `rx1.recv().await`: no message, or
\* the first one, of a block with a parent or of genesis
TaskSubscribe(id) ==
    LET t == subscription_tasks[id]
    IN  /\ TaskAt(id, "subscribe")
        /\ \/ TaskBecomes(id, TaskReturned)
           \/ TaskBecomes(id, [t EXCEPT !.pc = "catch_up", !.phase = "gap"])
           \/ TaskBecomes(id, [t EXCEPT !.pc = "send", !.phase = "first"])
        /\ UNCHANGED ws_tx

\* The task after a message is sent or skipped: the list of catch_up has
\* another message (more) or not, and the first update and those after
\* it are single messages.
TaskAfterSend(t, more) ==
    CASE t.phase \in {"batches", "gap"} /\ more -> [t EXCEPT !.pc = "send"]
      [] t.phase = "batches" -> [t EXCEPT !.pc = "catch_up"]
      [] t.phase = "gap" -> [t EXCEPT !.pc = "send", !.phase = "first"]
      [] OTHER -> [t EXCEPT !.pc = "forward", !.phase = "forward"]

\* SubscriptionSender::send up to its await: `if
\* !self.subscriptions.contains_key(..) { return Ok(()) }`
TaskContainsKey(id) ==
    LET t == subscription_tasks[id]
    IN  /\ TaskAt(id, "send")
        /\ \E more \in BOOLEAN :
             TaskBecomes(id, IF id \in subscriptions
                             THEN [t EXCEPT !.pc = "place"]
                             ELSE TaskAfterSend(t, more))
        /\ UNCHANGED ws_tx

\* `self.tx.send(Ok(Message::Text(data))).await`; the task returns if the
\* send fails, and is cancelled after it if it was aborted
TaskPlace(id) ==
    LET t == subscription_tasks[id]
    IN  /\ handler # <<>>
        /\ id \in SubscriptionIds
        /\ t.pc = "place"
        /\ WsSend(Notification(id))
        /\ \E more \in BOOLEAN :
             TaskBecomes(id, IF WsSendOk /\ ~t.aborted
                             THEN TaskAfterSend(t, more)
                             ELSE TaskReturned)

\* `while let Some(msg) = rx1.recv().await`: the channel of T::subscribe
\* is closed, or gives a message, which is skipped if it is more than one
\* block after the last one
TaskForward(id) ==
    LET t == subscription_tasks[id]
    IN  /\ TaskAt(id, "forward")
        /\ \/ TaskBecomes(id, TaskReturned)
           \/ TaskBecomes(id, t)
           \/ TaskBecomes(id, [t EXCEPT !.pc = "send"])
        /\ UNCHANGED ws_tx

\* the task aborted inside send is cancelled at the await of the
\* channel's send
TaskCancelled(id) ==
    /\ handler # <<>>
    /\ id \in SubscriptionIds
    /\ subscription_tasks[id].aborted
    /\ TaskBecomes(id, TaskReturned)
    /\ UNCHANGED ws_tx

\* handle_json_rpc_socket is called on a websocket
InitWebsocket ==
    /\ NoStream
    /\ stage = NoStage
    /\ mapped = NotMapped
    /\ NoStore
    /\ NoDirectory
    /\ handler = HandlerIdle(0)
    /\ subscriptions = {}
    /\ subscription_tasks = [id \in SubscriptionIds |-> NoTask]
    /\ ws_tx = [sent |-> <<>>, closed |-> FALSE]
    /\ next_subscription_id = 0
    /\ NoFlow

NextWebsocket ==
    \/ HandlerRecv
    \/ \E i \in 1..MaxBatch, r \in RpcRequests : HandleRequest(i, r)
    \/ HandlerRespond
    \/ WsReceiverDropped
    \/ \E id \in SubscriptionIds :
         \/ TaskLockRead(id)
         \/ TaskCatchUp(id)
         \/ TaskSubscribe(id)
         \/ TaskContainsKey(id)
         \/ TaskPlace(id)
         \/ TaskForward(id)
         \/ TaskCancelled(id)

SpecWebsocket == InitWebsocket /\ [][NextWebsocket]_vars

----------------------------------------------------------------------------
(* The task that invoke spawns for a subscription (subscription.rs), with
   the block numbers that the websocket model above leaves out: the
   batched catch-up, the first active update, the catch-up of the blocks
   before it, and the forwarding of the updates after it *)

\* BlockNumber::MAX, the current_block of a subscription that starts at
\* BlockId::Latest: a number that no block of a run has
MAX == MaxHeight + BatchSize + 1

\* the blocks a subscription can start from: one that is in storage, or
\* the latest one
StartingBlocks(head) == GENESIS..head \cup {MAX}

\* T::catch_up(from, to) for a T with one notification per block: the
\* notifications of the blocks of the range, both ends included, that are
\* in storage, in order of their numbers
RECURSIVE CatchUp(_, _, _)
CatchUp(from, to, head) ==
    IF from > to \/ from > head THEN <<>>
    ELSE <<from>> \o CatchUp(from + 1, to, head)

\* the flow of a subscription that starts at block n
FlowNew(n) ==
    [pc |-> "catch_up", starting_block |-> n, current_block |-> n,
     messages |-> <<>>, first_msg |-> <<>>, last_block |-> 0,
     subscribed |-> FALSE, sent |-> <<>>, taken |-> <<>>]

\* the task has returned, or is cancelled
FlowReturns == flow' = [flow EXCEPT !.pc = "returned", !.messages = <<>>]

\* `tx.send(msg.notification, ..)` places the notification of block b
FlowSent(f, b, kind) == [f EXCEPT !.sent = Append(@, [block |-> b, kind |-> kind])]

\* the block after the last one of a batch is left out
NextCurrentBlockSkips(b) == b + 2

\* `current_block += 1` after the messages of a batch
NextCurrentBlock(b) == b + 1

\* `BlockNumber::parent()`
FlowParent(b) == IF b = GENESIS THEN None ELSE Some(b - 1)

\* `T::catch_up(&router.context, &req, current_block, current_block +
\* BATCH_SIZE).await` of the loop: an error, which send_err reports before
\* the task returns; no messages, which ends the loop; or the messages to
\* send
FlowCatchUp ==
    /\ flow # <<>>
    /\ flow.pc = "catch_up"
    /\ \/ flow' = [flow EXCEPT !.pc = "returned",
                               !.sent = Append(@, [block |-> flow.current_block,
                                                   kind |-> "error"])]
       \/ LET messages == CatchUp(flow.current_block,
                                  flow.current_block + BatchSize, latest)
          IN  flow' = IF messages = <<>>
                      THEN [flow EXCEPT !.pc = "subscribe"]
                      ELSE [flow EXCEPT !.pc = "send_batch",
                                        !.messages = messages]
    /\ UNCHANGED <<rx1, latest, notFlowVars>>

\* `for msg in messages` of the loop: the send fails (the task returns),
\* or the notification is placed and `current_block = msg.block_number`;
\* after the last one, `current_block += 1`
FlowSendBatch ==
    /\ flow # <<>>
    /\ flow.pc = "send_batch"
    /\ \/ FlowReturns
       \/ LET msg == Head(flow.messages)
              rest == Tail(flow.messages)
          IN  flow' = [FlowSent(flow, msg, "catch_up") EXCEPT
                          !.messages = rest,
                          !.current_block = IF rest = <<>>
                                            THEN NextCurrentBlock(msg)
                                            ELSE msg,
                          !.pc = IF rest = <<>> THEN "catch_up"
                                 ELSE "send_batch"]
    /\ UNCHANGED <<rx1, latest, notFlowVars>>

\* `tokio::spawn(T::subscribe(router.context.clone(), req, tx1))`
FlowSubscribe ==
    /\ flow # <<>>
    /\ flow.pc = "subscribe"
    /\ flow' = [flow EXCEPT !.pc = "first_msg", !.subscribed = TRUE]
    /\ UNCHANGED <<rx1, latest, notFlowVars>>

\* `let first_msg = match rx1.recv().await`: the first update, or None,
\* on which the task returns
FlowFirstMsg ==
    /\ flow # <<>>
    /\ flow.pc = "first_msg"
    /\ IF rx1 = <<>>
       THEN /\ FlowReturns
            /\ UNCHANGED rx1
       ELSE /\ flow' = [flow EXCEPT
                           !.first_msg = <<Head(rx1)>>,
                           !.pc = IF IsSome(FlowParent(Head(rx1)))
                                  THEN "catch_up_gap" ELSE "send_first"]
            /\ rx1' = Tail(rx1)
    /\ UNCHANGED <<latest, notFlowVars>>

\* `T::catch_up(&router.context, &req, current_block, block_number).await`
\* up to the parent of the first update's block: an error, or the
\* messages to send
FlowCatchUpGap ==
    /\ flow # <<>>
    /\ flow.pc = "catch_up_gap"
    /\ \/ flow' = [flow EXCEPT !.pc = "returned",
                               !.sent = Append(@, [block |-> flow.current_block,
                                                   kind |-> "error"])]
       \/ LET messages == CatchUp(flow.current_block,
                                  Unwrap(FlowParent(flow.first_msg[1])),
                                  latest)
          IN  flow' = [flow EXCEPT
                          !.messages = messages,
                          !.pc = IF messages = <<>> THEN "send_first"
                                 ELSE "send_gap"]
    /\ UNCHANGED <<rx1, latest, notFlowVars>>

\* `for msg in messages` of the second catch-up
FlowSendGap ==
    /\ flow # <<>>
    /\ flow.pc = "send_gap"
    /\ \/ FlowReturns
       \/ LET rest == Tail(flow.messages)
          IN  flow' = [FlowSent(flow, Head(flow.messages), "catch_up") EXCEPT
                          !.messages = rest,
                          !.pc = IF rest = <<>> THEN "send_first"
                                 ELSE "send_gap"]
    /\ UNCHANGED <<rx1, latest, notFlowVars>>

\* the first update is sent: `let mut last_block = first_msg.block_number`
FlowSendFirst ==
    /\ flow # <<>>
    /\ flow.pc = "send_first"
    /\ \/ FlowReturns
       \/ flow' = [FlowSent(flow, flow.first_msg[1], "update") EXCEPT
                      !.last_block = flow.first_msg[1],
                      !.pc = "forward"]
    /\ UNCHANGED <<rx1, latest, notFlowVars>>

\* `while let Some(msg) = rx1.recv().await`: an update of a block more
\* than one after last_block is ignored; another one is to be sent
FlowForward ==
    /\ flow # <<>>
    /\ flow.pc = "forward"
    /\ rx1 # <<>>
    /\ LET msg == Head(rx1)
       IN  flow' = IF msg > flow.last_block + 1
                   THEN [flow EXCEPT !.taken = Append(@, msg)]
                   ELSE [flow EXCEPT !.taken = Append(@, msg),
                                     !.messages = <<msg>>,
                                     !.pc = "send_update"]
    /\ rx1' = Tail(rx1)
    /\ UNCHANGED <<latest, notFlowVars>>

\* the update is sent, `last_block = msg.block_number`; the loop is left
\* if the send fails
FlowSendUpdate ==
    /\ flow # <<>>
    /\ flow.pc = "send_update"
    /\ \/ FlowReturns
       \/ flow' = [FlowSent(flow, flow.messages[1], "update") EXCEPT
                      !.last_block = flow.messages[1],
                      !.messages = <<>>,
                      !.pc = "forward"]
    /\ UNCHANGED <<rx1, latest, notFlowVars>>

\* the channel of T::subscribe is closed and empty: the loop ends
FlowUpdatesEnd ==
    /\ flow # <<>>
    /\ flow.pc = "forward"
    /\ rx1 = <<>>
    /\ FlowReturns
    /\ UNCHANGED <<rx1, latest, notFlowVars>>

\* A block is added to storage. The task of T::subscribe, once spawned,
\* sends its update on rx1, or misses it.
NewBlock ==
    /\ flow # <<>>
    /\ latest < MaxHeight
    /\ latest' = latest + 1
    /\ \/ /\ flow.subscribed
          /\ flow.pc # "returned"
          /\ rx1' = Append(rx1, latest + 1)
       \/ UNCHANGED rx1
    /\ UNCHANGED <<flow, notFlowVars>>

\* invoke has spawned the task of a subscription whose starting block is
\* in storage, or is the latest
InitFlow ==
    /\ NoStream
    /\ stage = NoStage
    /\ mapped = NotMapped
    /\ NoStore
    /\ NoDirectory
    /\ NoWebsocket
    /\ latest \in GENESIS..MaxHeight
    /\ flow \in {FlowNew(n) : n \in StartingBlocks(latest)}
    /\ rx1 = <<>>

NextFlow ==
    \/ FlowCatchUp
    \/ FlowSendBatch
    \/ FlowSubscribe
    \/ FlowFirstMsg
    \/ FlowCatchUpGap
    \/ FlowSendGap
    \/ FlowSendFirst
    \/ FlowForward
    \/ FlowSendUpdate
    \/ FlowUpdatesEnd
    \/ NewBlock

SpecFlow == InitFlow /\ [][NextFlow]_vars

----------------------------------------------------------------------------
(* StarkHash::from_hex_str of the pedersen crate *)

\* the characters of the strings that from_hex_str is called on, with
\* their bytes
Chars ==
    ("0" :> 48) @@ ("1" :> 49) @@ ("8" :> 56) @@ ("9" :> 57) @@
    ("A" :> 65) @@ ("F" :> 70) @@ ("G" :> 71) @@ ("a" :> 97) @@
    ("f" :> 102) @@ ("x" :> 120)

\* the strings of n characters
RECURSIVE StringsOf(_)
StringsOf(n) ==
    IF n = 0 THEN {<<>>}
    ELSE {<<c>> \o s : c \in DOMAIN Chars, s \in StringsOf(n - 1)}

\* the string of n characters c
Repeat(c, n) == [i \in 1..n |-> c]

\* The strings from_hex_str is called on: at most MaxDigits characters, or
\* such a string after leading characters that make it as long as the
\* buffer takes or one longer, each with or without the prefix "0x".
HexStrs ==
    LET short == UNION {StringsOf(n) : n \in 0..MaxDigits}
        long == {Repeat(c, n) \o s :
                    c \in {"0", "1", "a"},
                    n \in {HexDigits - MaxDigits, HexDigits - MaxDigits + 1},
                    s \in StringsOf(MaxDigits)}
    IN  {p \o s : p \in {<<>>, <<"0", "x">>}, s \in short \cup long}

\* the results of from_hex_str and parse_hex_digit
HexOk(v) == [ok |-> TRUE, value |-> v]
InvalidNibble(other) == [ok |-> FALSE, err |-> "InvalidNibble", nibble |-> other]
Overflow == [ok |-> FALSE, err |-> "Overflow"]

\* `fn parse_hex_digit(digit: u8)`
parse_hex_digit(digit) ==
    IF digit \in 48..57 THEN HexOk(digit - 48)
    ELSE IF digit \in 65..70 THEN HexOk(digit - 65)
    ELSE IF digit \in 97..102 THEN HexOk(digit - 97)
    ELSE InvalidNibble(digit)

\* `hex_str.strip_prefix("0x").unwrap_or(hex_str)`
StripPrefix(hex_str) ==
    IF Len(hex_str) >= 2 /\ hex_str[1] = "0" /\ hex_str[2] = "x"
    THEN SubSeq(hex_str, 3, Len(hex_str))
    ELSE hex_str

\* `StarkHash::from_be_bytes(bytes)`
from_be_bytes(bytes) == IF bytes[0] \in 0..7 THEN HexOk(bytes) ELSE Overflow

\* The bytes of the string in the order from_hex_str parses them: the odd
\* nibble, then the two bytes of each chunk of `rchunks_exact(2)`, the last
\* chunk of the string first.
ParseOrder(s) ==
    LET n == Len(s)
        chunks == n \div 2
        odd == IF n % 2 = 1 THEN <<Chars[s[1]]>> ELSE <<>>
    IN  odd \o [k \in 1..(2 * chunks) |->
                  LET i == (k - 1) \div 2
                  IN  Chars[s[IF k % 2 = 1 THEN n - 2 * i - 1 ELSE n - 2 * i]]]

\* the first error of parse_hex_digit on the bytes, if any
RECURSIVE FirstInvalid(_)
FirstInvalid(bytes) ==
    IF bytes = <<>> THEN None
    ELSE IF parse_hex_digit(Head(bytes)).ok THEN FirstInvalid(Tail(bytes))
         ELSE Some(parse_hex_digit(Head(bytes)))

\* `StarkHash::from_hex_str(hex_str)`
from_hex_str(hex_str) ==
    LET s == StripPrefix(hex_str)
        n == Len(s)
        full_bytes == n \div 2
        digit(p) == parse_hex_digit(Chars[s[p]]).value
        buf == [b \in 0..(BufLen - 1) |->
                  LET i == (BufLen - 1) - b
                  IN  IF i < full_bytes
                      THEN (digit(n - 2 * i - 1) * 16) + digit(n - 2 * i)
                      ELSE IF i = full_bytes /\ n % 2 = 1 THEN digit(1)
                      ELSE 0]
    IN  IF n > HexDigits THEN Overflow
        ELSE IF IsSome(FirstInvalid(ParseOrder(s)))
             THEN Unwrap(FirstInvalid(ParseOrder(s)))
             ELSE from_be_bytes(buf)

\* from_hex_str is called on a string
FromHexStr ==
    /\ call.fn = "from_hex_str"
    /\ call.result = <<>>
    /\ call' = [call EXCEPT !.result = <<from_hex_str(call.hex_str)>>]
    /\ UNCHANGED <<db, notStoreVars>>

InitFromHexStr ==
    /\ NoStream
    /\ stage = NoStage
    /\ mapped = NotMapped
    /\ db = NoStorage
    /\ call \in {[fn |-> "from_hex_str", hex_str |-> s, result |-> <<>>] :
                    s \in HexStrs}
    /\ NoDirectory
    /\ NoWebsocket
    /\ NoFlow

SpecFromHexStr == InitFromHexStr /\ [][FromHexStr]_vars

----------------------------------------------------------------------------
(* make_transaction_stream with a peer lookup that reaches honest peers *)

\* the attempts numbered up to MaxAttempts reach peers that may do
\* anything, the later ones reach an honest peer: one attempt per block of
\* the range is room enough for them
HonestAttempts == MaxAttempts + MaxBlocks

\* the peer being served is an honest one
Honest == peer > MaxAttempts

\* the transactions an honest peer sends for the n blocks from b on: those
\* of the chain, block after block
RECURSIVE HonestResponses(_, _)
HonestResponses(b, n) ==
    IF n = 0 THEN <<>>
    ELSE TrueTxs(b, cs[b - start0 + 1].count) \o HonestResponses(b + 1, n - 1)

\* the number of transactions of peer p in the items
RECURSIVE TakenInItems(_, _)
TakenInItems(items, p) ==
    IF items = <<>> THEN 0
    ELSE (IF Head(items).peer = p THEN Len(Head(items).transactions) ELSE 0)
             + TakenInItems(Tail(items), p)

\* the number of transactions taken from the current peer
TakenFromPeer == TakenInItems(out, peer) + Len(transactions)

\* what an honest peer sends in answer to the current request
HonestStream ==
    HonestResponses(Unwrap(request).start, Unwrap(request).limit)

\* the Fin of the current peer was taken and the response loop went on: it
\* closed an empty block that is not the last
FinTaken ==
    /\ out # <<>>
    /\ out[Len(out)].peer = peer
    /\ out[Len(out)].transactions = <<>>

\* the peer lookup returns an honest peer and send_request to it succeeds
TxHonestRequest ==
    /\ engine = "tx"
    /\ UNCHANGED <<resp, syncVars>>
    /\ pc = "next_peer"
    /\ peer < HonestAttempts
    /\ peer' = Max(peer, MaxAttempts) + 1
    /\ request' = Some(Iteration)
    /\ nitems' = 0
    /\ RequestSent("recv")

\* a response of a peer that may do anything
TxFaultyResponse ==
    /\ ~Honest
    /\ \/ TxRecvTransaction
       \/ TxRecvConversionError
       \/ TxRecvFin
       \/ TxRecvNone

\* the honest peer sends the next transaction of the requested range
TxHonestTransaction ==
    /\ engine = "tx"
    /\ UNCHANGED <<resp, syncVars>>
    /\ pc = "recv"
    /\ Honest
    /\ ~FinTaken
    /\ TakenFromPeer < Len(HonestStream)
    /\ TxTake(HonestStream[TakenFromPeer + 1])

\* the honest peer has served the requested range and sends Fin
TxHonestFin ==
    /\ Honest
    /\ ~FinTaken
    /\ TakenFromPeer = Len(HonestStream)
    /\ TxRecvFin

\* the channel of the honest peer is closed after its Fin
TxHonestClosed ==
    /\ Honest
    /\ FinTaken
    /\ TxRecvNone

NextTxLive ==
    \/ TxGetPeers
    \/ TxPeersExhausted
    \/ TxSendRequestFails
    \/ TxSendRequestOk
    \/ TxFaultyResponse
    \/ TxHonestRequest
    \/ TxHonestTransaction
    \/ TxHonestFin
    \/ TxHonestClosed

\* make_transaction_stream for a range that is not empty, with a count
\* stream that holds a count for every block of the range
InitTxLive ==
    /\ InitTx
    /\ start0 <= stop
    /\ Len(cs) = stop - start0 + 1
    /\ \A i \in DOMAIN cs : cs[i].ok

\* the generator is polled until it ends, and a lookup that can return an
\* honest peer again and again does return it
SpecTxLive ==
    /\ InitTxLive
    /\ [][NextTxLive]_vars
    /\ WF_vars(NextTxLive)
    /\ SF_vars(TxHonestRequest)

----------------------------------------------------------------------------
(* A websocket with a subscription *)

\* The first subscription id names a subscription that an earlier message
\* of the websocket started: the handler has sent its response and is
\* between two messages, the task has not run yet, and the task of split_ws
\* has taken every message off the send channel. The messages received and
\* the messages placed on the channel are counted from here.
InitSubscribed ==
    /\ NoStream
    /\ stage = NoStage
    /\ mapped = NotMapped
    /\ NoStore
    /\ NoDirectory
    /\ handler = HandlerIdle(0)
    /\ subscriptions = {0}
    /\ subscription_tasks =
         [id \in SubscriptionIds |->
            IF id = 0 THEN [NoTask EXCEPT !.pc = "lock_read"] ELSE NoTask]
    /\ ws_tx = [sent |-> <<>>, closed |-> FALSE]
    /\ next_subscription_id = 1
    /\ NoFlow

SpecSubscribed == InitSubscribed /\ [][NextWebsocket]_vars

----------------------------------------------------------------------------
(* Properties of the counted engines *)

\* the elements of a sequence
Range(f) == {f[i] : i \in DOMAIN f}

\* the Ok items yielded so far
Items == Range(out)

\* the number of blocks of the range
NumBlocks == stop - start0 + 1

\* the count stream has a count for every block of the range
CountsComplete == Len(cs) = NumBlocks /\ \A i \in DOMAIN cs : cs[i].ok

\* the count the count stream yields for block b
CountOf(b) == cs[b - start0 + 1].count

\* the peers whose responses make up the payload of an item
ItemSources(it) ==
    CASE engine = "tx" -> {it.transactions[j].from :
                              j \in DOMAIN it.transactions}
      [] engine = "cl" -> {it.definition.from}
      [] engine = "ev" -> UNION {{g.events[k].from : k \in DOMAIN g.events} :
                                    g \in Range(it.events)}
      [] OTHER -> {}

\* the payload of an item as the peer sent it
ItemPayload(it) ==
    CASE engine = "tx" -> [j \in DOMAIN it.transactions |->
                              it.transactions[j].t]
      [] engine = "sd" -> it.state_diff
      [] OTHER -> <<>>

\* the chain's payload of block b
ChainPayload(b) ==
    CASE engine = "tx" -> TrueTxs(b, CountOf(b))
      [] engine = "sd" -> TrueStateDiff(CountOf(b))
      [] OTHER -> <<>>

\* C1: in the transaction, class and event engines every item is yielded
\* with the block's counter at exactly zero, and its payload holds only
\* responses of the peer that yielded it: what a peer had accumulated when
\* its response stream ended is in no yielded payload.
C1_AtomicPerBlock ==
    engine \in {"tx", "cl", "ev"} =>
        \A it \in Items :
            /\ it.counter = 0
            /\ ItemSources(it) \subseteq {it.peer}

\* C1 witness: the first block was given up by one peer with items
\* accumulated, and has just been yielded, non-empty, by a later peer.
C1_Witness ==
    /\ engine \in {"tx", "cl", "ev"}
    /\ dropped
    /\ last \in {"yield", "yield_done"}
    /\ out # <<>>
    /\ out[1].peer > 1
    /\ out[Len(out)].block = start0
    /\ ItemSources(out[1]) # {}

\* C2: the block numbers of the Ok items of make_transaction_stream are
\* start, start + 1, ... in this order, none of them twice.
C2_TxContiguous ==
    engine = "tx" => \A i \in DOMAIN out : out[i].block = start0 + i - 1

\* C3: when every count is positive, every data response received was the
\* chain's for its place (peers failed only by ending early, closing or
\* sending more than was asked) and the stream ended on the Fin of a peer
\* that served the rest of the range, the items yielded are those of a run
\* served by an honest peer alone: one per block, in order, with the
\* chain's payload.
C3_PeerRotationSafety ==
    ( /\ engine \in {"tx", "sd"}
      /\ pc = "done"
      /\ last = "fin_done"
      /\ errs = 0
      /\ corrupt = 0
      /\ CountsComplete
      /\ \A i \in DOMAIN cs : cs[i].count > 0 )
    => /\ Len(out) = NumBlocks
       /\ \A i \in DOMAIN out :
            /\ out[i].block = start0 + i - 1
            /\ ItemPayload(out[i]) = ChainPayload(out[i].block)

C5_TxRetrySameBlock ==
    engine = "tx" =>
        /\ last = "request" =>
              /\ Unwrap(request).start = start
              /\ current_count = CountOf(start)
              /\ transactions = <<>>
        /\ \A it \in Items :
              \A j \in DOMAIN it.transactions : it.transactions[j].from = it.peer

\* C5 witness: a peer was left holding transactions of an unfinished block
\* and the next peer's response loop starts on that block.
C5_Witness ==
    /\ engine = "tx"
    /\ dropped
    /\ last = "request"
    /\ peer > 1
    /\ current_count > 1
    /\ out = <<>>

\* C6: every item of make_transaction_stream holds as many (transaction,
\* receipt) pairs as the count stream gave for its block, and the receipt
\* at position i (from zero) carries transaction index i.
C6_TxCountAndIndex ==
    engine = "tx" =>
        \A it \in Items :
            /\ Len(it.transactions) = CountOf(it.block)
            /\ \A j \in DOMAIN it.transactions :
                  it.transactions[j].transaction_index = j - 1

\* C6 witness: an item with two pairs has been yielded.
C6_Witness ==
    /\ engine = "tx"
    /\ \E it \in Items : Len(it.transactions) = 2

\* the commitment an item's payload hashes to
RecomputedCommitment(it) == Commitment(ItemPayload(it))

\* whether out[i] is the first item yielded for its block
FirstOfBlock(i) == \A k \in 1..(i - 1) : out[k].block # out[i].block

C8_PrematureFinRetries ==
    (engine \in {"tx", "sd"} /\ last = "premature_fin") =>
        /\ pc = "next_peer"
        /\ Iteration.limit = stop - start + 1
        /\ \A it \in Items : it.block < Iteration.start

\* C9: when the count stream ends or yields an error where an engine needs
\* the count of a block, one Err item is yielded and the generator is done:
\* no Ok item exists for that block or a later one, and no peer is tried
\* any more.
C9_CountFailureIsFatal ==
    last = "count_failed" =>
        /\ pc = "done"
        /\ errs = 1
        /\ \A it \in Items : it.block < start

\* C9 witness: the count stream failed on a block after the first, items
\* having been yielded for the blocks before.
C9_Witness ==
    /\ last = "count_failed"
    /\ start > start0
    /\ out # <<>>

\* C10: in every engine, over a non-empty range, start never decreases and
\* stays within the range; every request asks for [start, stop] with
\* limit stop - start + 1, and its iteration.start is not below that of the
\* request before.
C10_ForwardOnly ==
    /\ [][ /\ start' >= start
           /\ peer' # peer =>
                /\ IsSome(request')
                /\ Unwrap(request').start = start
                /\ Unwrap(request').limit = stop - Unwrap(request').start + 1
                /\ Unwrap(request').start <= stop
                /\ IsSome(request) =>
                      Unwrap(request').start >= Unwrap(request).start ]_vars
    /\ [](start0 <= stop => start <= stop)

\* C10 witness: a request was sent for a block after the first of the range.
C10_Witness ==
    /\ IsSome(request)
    /\ Unwrap(request).start > start0
    /\ peer > 1

\* a step of make_state_diff_stream that takes a data response
SdTakesResponse == engine = "sd" /\ resp'.flip # resp.flip

\* C11: in make_state_diff_stream, a ContractDiff that arrives on the last
\* block with more storage writes than the counter has left ends the
\* generator: the outer loop is left, and neither an Ok item nor an Err item
\* is yielded for what was accumulated.
C11_StorageOverCountOnLastBlock ==
    [][ ( /\ SdTakesResponse
          /\ start = stop
          /\ resp'.response.kind = "ContractDiff"
          /\ Len(resp'.response.values) > current_count )
        => /\ pc' = "done"
           /\ last' = "overcount"
           /\ out' = out
           /\ errs' = errs ]_vars

\* C11 witness: the stream has ended on the last of two blocks on a
\* ContractDiff of the system contract, whose nonce and class hash are not
\* counted, with two storage writes.
C11_Witness ==
    /\ engine = "sd"
    /\ last = "overcount"
    /\ start = stop
    /\ start > start0
    /\ resp.response.kind = "ContractDiff"
    /\ resp.response.address = ONE
    /\ Len(out) = 1

\* C12: a request that fails to be sent takes the engine to the next peer
\* of the list and changes neither start, the count saved for the block,
\* the saved commitment nor the position of the count stream, and nothing
\* is yielded.
C12_SendFailureKeepsProgress ==
    [][ (last' = "send_failed" /\ peer' # peer)
        => /\ pc' = "next_peer"
           /\ UNCHANGED <<start, current_count_outer, current_commitment,
                          cs_pos, out, errs>> ]_vars

\* C12 witness: a request failed with a count saved for a block after the
\* first, items having been yielded.
C12_Witness ==
    /\ last = "send_failed"
    /\ IsSome(current_count_outer)
    /\ start > start0
    /\ out # <<>>

\* the counter after a step that took a data response and went on: the
\* counter of the item when the step yielded one
SdCounterAfter ==
    IF Len(out') > Len(out) THEN out'[Len(out')].counter ELSE current_count'

\* 1 for Some, 0 for None
Present(o) == IF IsSome(o) THEN 1 ELSE 0

\* storage values, plus one for a nonce, plus one for a class hash; one for a
\* declared class
FullCost(r) ==
    IF r.kind = "ContractDiff"
    THEN Len(r.values) + Present(r.nonce) + Present(r.class_hash)
    ELSE 1

\* as FullCost, but the storage values alone for the system contract
CountedCost(r) ==
    IF r.kind = "ContractDiff" /\ r.address = ONE THEN Len(r.values)
    ELSE FullCost(r)

\* C13 (as claimed): every ContractDiff taken by make_state_diff_stream,
\* whatever its address, lowers the counter by its storage values plus one
\* for a nonce plus one for a class hash, and every DeclaredClass by one.
C13_FullAccounting ==
    [][ (SdTakesResponse /\ last' # "overcount")
        => SdCounterAfter = current_count - FullCost(resp'.response) ]_vars

\* C13 (amended): a ContractDiff for an address other than
\* ContractAddress::ONE lowers the counter by its storage values plus one
\* for a nonce plus one for a class hash; a ContractDiff for
\* ContractAddress::ONE lowers it by its storage values alone, its nonce and
\* class hash being ignored; a DeclaredClass lowers it by one; a response
\* that would lower the counter below zero ends the generator instead.
C13_CountedAccounting ==
    [][ SdTakesResponse
        => IF CountedCost(resp'.response) > current_count
           THEN last' = "overcount"
           ELSE /\ last' # "overcount"
                /\ SdCounterAfter =
                       current_count - CountedCost(resp'.response) ]_vars

\* C13 witness: a ContractDiff of the system contract with a nonce, a class
\* hash and two storage values was taken with the counter at two, and the
\* block was yielded.
C13_Witness ==
    /\ engine = "sd"
    /\ last = "yield"
    /\ resp.flip = 1
    /\ resp.response.kind = "ContractDiff"
    /\ resp.response.address = ONE
    /\ IsSome(resp.response.nonce)
    /\ nitems = 1
    /\ out[Len(out)].counter = 0

\* the state diff accumulated after a step that took a data response and
\* went on: the state diff of the item when the step yielded one
SdAccumulatedAfter ==
    IF Len(out') > Len(out) THEN out'[Len(out')].state_diff ELSE state_diff'

\* the storage keys a list of values writes, and the last value written to k
KeysOf(values) == {values[i].key : i \in DOMAIN values}
LastWrite(values, k) ==
    LET i == CHOOSE i \in DOMAIN values :
                 /\ values[i].key = k
                 /\ \A j \in DOMAIN values : values[j].key = k => j <= i
    IN  values[i].value

\* storage new is storage old with the values written in order
StorageWritten(old, new, values) ==
    /\ DOMAIN new = (DOMAIN old) \cup KeysOf(values)
    /\ \A k \in DOMAIN new :
          new[k] = IF k \in KeysOf(values) THEN LastWrite(values, k)
                   ELSE old[k]

\* C14: the storage values of a ContractDiff for ContractAddress::ONE go to
\* system_contract_updates[ONE].storage and leave contract_updates alone;
\* the storage values, the nonce and the class hash (as Deploy) of a
\* ContractDiff for another address go to contract_updates[address] and
\* leave system_contract_updates alone; of two writes to one key the later
\* stays.  The item yielded for the block holds what was so accumulated.
C14_StateDiffRouting ==
    [][ ( /\ SdTakesResponse
          /\ last' # "overcount"
          /\ resp'.response.kind = "ContractDiff" )
        => LET d == resp'.response
               a == d.address
               old == state_diff
               new == SdAccumulatedAfter
           IN  IF a = ONE
               THEN /\ new.contract_updates = old.contract_updates
                    /\ a \in DOMAIN new.system_contract_updates
                    /\ StorageWritten(
                           EntryOrDefault(old.system_contract_updates, a,
                                          DefaultUpdate).storage,
                           new.system_contract_updates[a].storage, d.values)
               ELSE /\ new.system_contract_updates =
                           old.system_contract_updates
                    /\ a \in DOMAIN new.contract_updates
                    /\ StorageWritten(
                           EntryOrDefault(old.contract_updates, a,
                                          DefaultUpdate).storage,
                           new.contract_updates[a].storage, d.values)
                    /\ IsSome(d.nonce) =>
                           new.contract_updates[a].nonce = d.nonce
                    /\ IsSome(d.class_hash) =>
                           new.contract_updates[a].class =
                               Some(<<"Deploy", Unwrap(d.class_hash)>>) ]_vars

\* C14 witness: an item was yielded whose system contract storage holds the
\* later of two writes to one key and whose contract_updates has no entry
\* for the system contract.
C14_Witness ==
    /\ engine = "sd"
    /\ \E it \in Items :
          /\ ONE \in DOMAIN it.state_diff.system_contract_updates
          /\ it.state_diff.system_contract_updates[ONE].storage[1] = 2
          /\ ONE \notin DOMAIN it.state_diff.contract_updates

\* the events of a list of groups, in order
RECURSIVE FlattenGroups(_)
FlattenGroups(groups) ==
    IF groups = <<>> THEN <<>>
    ELSE groups[1].events \o FlattenGroups(Tail(groups))

\* a list of events grouped in order: an event with the transaction hash of
\* the event before it joins that event's group, any other opens a group
RECURSIVE GroupEvents(_)
GroupEvents(es) ==
    IF es = <<>> THEN <<>>
    ELSE LET g == GroupEvents(SubSeq(es, 1, Len(es) - 1))
             e == es[Len(es)]
         IN  IF g # <<>> /\ g[Len(g)].transaction_hash = e.transaction_hash
             THEN [g EXCEPT ![Len(g)].events = Append(@, e)]
             ELSE Append(g, [transaction_hash |-> e.transaction_hash,
                             events |-> <<e>>])

\* a step of make_event_stream in which an Event arrives and converts
EvTakesEvent == engine = "ev" /\ last' \in {"item", "panic"}

\* C15: every event make_event_stream receives for a block lowers the
\* counter by one and is added, in the order received, to the groups of the
\* block: to the last group when the event before it in the block has its
\* transaction hash, to a new group otherwise; so the events of a yielded
\* block, over all its groups, are as many as the block's count.
C15_EventGrouping ==
    /\ [][ EvTakesEvent
           => /\ pc' # "panic"
              /\ current_count' = current_count - 1
              /\ \E e \in [transaction_hash : TxnHashes, from : {peer}] :
                    FlattenGroups(events') =
                        Append(FlattenGroups(events), e)
              /\ events' = GroupEvents(FlattenGroups(events')) ]_vars
    /\ [](engine = "ev" =>
             \A it \in Items :
                 /\ Len(FlattenGroups(it.events)) = CountOf(it.block)
                 /\ it.events = GroupEvents(FlattenGroups(it.events)))

\* C16: the items of make_event_stream are those of blocks start,
\* start + 1, ... in this order, one per block, a block with no events being
\* yielded with an empty list of groups; and a stream over a non-empty range
\* that has ended without an Err item ended right after the yield of block
\* stop.
C16_EventBlocksInOrder ==
    engine = "ev" =>
        /\ \A i \in DOMAIN out :
              /\ out[i].block = start0 + i - 1
              /\ out[i].block <= stop
              /\ CountOf(out[i].block) = 0 => out[i].events = <<>>
        /\ (pc = "done" /\ errs = 0 /\ start0 <= stop) =>
              /\ last = "yield_done"
              /\ Len(out) = NumBlocks
              /\ out[Len(out)].block = stop

\* C16 witness: the stream has ended after two blocks, the first without
\* events, the second completed by a later peer after a peer was left with
\* events of it.
C16_Witness ==
    /\ engine = "ev"
    /\ pc = "done"
    /\ errs = 0
    /\ Len(out) = 2
    /\ out[1].events = <<>>
    /\ out[2].events # <<>>
    /\ out[2].peer > 1
    /\ dropped

----------------------------------------------------------------------------
(* Properties of header_stream *)

\* header_stream has ended having asked at most one peer, which sent the
\* headers of its request in order, as many as the request's limit, and
\* nothing else
HdServedByOnePeer ==
    /\ engine = "hd"
    /\ pc = "done"
    /\ corrupt = 0
    /\ IsSome(request) => peer = 1 /\ nitems = Unwrap(request).limit

\* C17: header_stream(start, stop, false) with start <= stop, served by a
\* peer that answers with the headers of start..=stop in order and Fin,
\* yields these stop - start + 1 headers in this order and ends, also when
\* start = stop.
C17_ForwardHeadersDelivered ==
    (HdServedByOnePeer /\ ~reverse /\ start0 <= stop)
    => /\ Len(out) = stop - start0 + 1
       /\ \A i \in DOMAIN out : out[i].block = start0 + i - 1

\* the positions for which header_stream has yielded a header
HdYielded == {out[i].position : i \in DOMAIN out}

\* C18: header_stream ends only after it has yielded a header for every
\* position of start..stop, stop included; when a peer has sent a proper
\* prefix and then Fin, a conversion failure or a disconnect, the positions
\* that remain, stop among them, are asked of a later peer.
C18_EveryPositionYielded ==
    (engine = "hd" /\ pc = "done" /\ out # <<>> /\ corrupt = 0)
    => \A b \in start0..stop : b \in HdYielded

----------------------------------------------------------------------------
(* Properties of the header sync stages *)

\* a step of map that took the header h
MapTook(h) == mapped'.input = Some(h) /\ mapped' # mapped

\* the headers in ok have consecutive numbers from next on and each has the
\* hash of the one before it as parent hash, the first one parent_hash
ForwardLinked(next, parent_hash, ok) ==
    \A i \in DOMAIN ok :
        /\ ok[i].number = next + i - 1
        /\ ok[i].parent_hash = IF i = 1 THEN parent_hash ELSE ok[i - 1].hash

\* C20: ForwardContinuity::map returns Ok only for a header whose number is
\* the expected next number and whose parent_hash is the stored parent hash,
\* and then expects the number after it with its hash as parent hash; the
\* headers returned as Ok have consecutive numbers from the initial one on,
\* each with the hash of the one before as parent_hash; every other header
\* returns Discontinuity and leaves next and parent_hash as they were.
C20_ForwardContinuity ==
    [][\A h \in SignedBlockHeaders :
        (stage.NAME = "Headers::Continuity" /\ MapTook(h)) =>
            /\ mapped'.result \in {"Ok", "Discontinuity"}
            /\ mapped'.result = "Ok" <=>
                  (h.number = stage.next /\ h.parent_hash = stage.parent_hash)
            /\ mapped'.result = "Ok" =>
                  /\ stage' = [stage EXCEPT !.next = stage.next + 1,
                                            !.parent_hash = h.hash]
                  /\ mapped'.ok = Append(mapped.ok, h)
            /\ mapped'.result = "Discontinuity" =>
                  /\ stage' = stage
                  /\ mapped'.ok = mapped.ok
            /\ ForwardLinked(mapped.new.next, mapped.new.parent_hash,
                             mapped'.ok)]_vars

\* C20 witness: two headers were accepted and then a header with the
\* expected number and another parent hash was rejected
C20_Witness ==
    /\ stage.NAME = "Headers::Continuity"
    /\ Len(mapped.ok) = 2
    /\ mapped.result = "Discontinuity"
    /\ Unwrap(mapped.input).number = stage.next
    /\ Unwrap(mapped.input).parent_hash # stage.parent_hash

\* the genesis header is among the headers map returned as Ok
GenesisAccepted == \E i \in DOMAIN mapped.ok : mapped.ok[i].number = 0

\* C21: BackwardContinuity::map returns Ok only for a header whose number is
\* the expected number and whose hash is the expected hash; it then expects
\* the parent number, none after genesis, and the header's parent_hash as
\* hash; once the genesis header was returned as Ok every further header
\* returns Discontinuity.
C21_BackwardContinuity ==
    [][\A h \in SignedBlockHeaders :
        (stage.NAME = "Headers::Continuity" /\ MapTook(h)) =>
            /\ mapped'.result \in {"Ok", "Discontinuity"}
            /\ mapped'.result = "Ok" <=>
                  (stage.number = Some(h.number) /\ h.hash = stage.hash)
            /\ mapped'.result = "Ok" =>
                  /\ stage'.number =
                        IF h.number = 0 THEN None ELSE Some(h.number - 1)
                  /\ stage'.hash = h.parent_hash
                  /\ mapped'.ok = Append(mapped.ok, h)
            /\ mapped'.result = "Discontinuity" =>
                  /\ stage' = stage
                  /\ mapped'.ok = mapped.ok
            /\ GenesisAccepted => mapped'.result = "Discontinuity"]_vars

\* C21 witness: block 1 and genesis were accepted and a further header for
\* genesis with the expected hash was rejected
C21_Witness ==
    /\ stage.NAME = "Headers::Continuity"
    /\ Len(mapped.ok) = 2
    /\ GenesisAccepted
    /\ mapped.result = "Discontinuity"
    /\ Unwrap(mapped.input).number = 0
    /\ Unwrap(mapped.input).hash = stage.hash

\* a step of VerifyHashAndSignature::map that took the header h
VerifyTook(h) ==
    /\ stage.NAME = "Headers::Verify"
    /\ mapped'.input = Some(h)
    /\ mapped' # mapped

\* C22: VerifyHashAndSignature::map returns BadBlockHash for every header
\* whose recomputed block hash is not its hash, and returns the header
\* unchanged whenever the recomputed hash is its hash, whether its signature
\* verifies or not: no error comes from the signature alone.
C22_HashFatalSignatureNot ==
    [][\A h \in HashedBlockHeaders :
        VerifyTook(h) =>
            /\ h.recomputed # h.hash => mapped'.result = "BadBlockHash"
            /\ h.recomputed = h.hash =>
                  /\ mapped'.result = "Ok"
                  /\ mapped'.ok = <<h>>
            /\ stage' = stage]_vars

\* C22 witness: a header with the right hash and a signature that does not
\* verify was returned
C22_Witness ==
    /\ stage.NAME = "Headers::Verify"
    /\ mapped.result = "Ok"
    /\ ~Unwrap(mapped.input).signature_ok
    /\ mapped.ok = <<Unwrap(mapped.input)>>

----------------------------------------------------------------------------
(* Properties of the header gap finder *)

\* the block numbers whose header is stored
Stored == DOMAIN db.block_headers

\* next_gap has returned a gap
GapReturned == call.fn = "next_gap" /\ call.ok /\ IsSome(call.result)

\* C23: a gap {head, head_hash, tail, tail_parent_hash} returned by next_gap
\* has tail <= head and no stored block in tail..head; block tail - 1 is
\* stored with hash tail_parent_hash, or tail is GENESIS with ZERO as parent
\* hash and nothing is stored below the gap; when the search head was
\* stored, block head + 1 is stored and head_hash is its parent_hash.
C23_GapIsMissingRange ==
    GapReturned =>
        LET gap == Unwrap(call.result)
        IN  /\ gap.tail <= gap.head
            /\ \A n \in gap.tail..gap.head : n \notin Stored
            /\ IF gap.tail - 1 \in Stored
               THEN gap.tail_parent_hash = db.block_headers[gap.tail - 1].hash
               ELSE /\ gap.tail = GENESIS
                    /\ gap.tail_parent_hash = ZERO
                    /\ \A n \in GENESIS..gap.head : n \notin Stored
            /\ call.head \in Stored =>
                  /\ gap.head + 1 \in Stored
                  /\ gap.head_hash = db.block_headers[gap.head + 1].parent_hash

\* C23 witness: blocks {0, 1, 2, 5, 6} are stored and next_gap from head 6
\* returned the gap 3..4
C23_Witness ==
    /\ GapReturned
    /\ Stored = {0, 1, 2, 5, 6}
    /\ call.head = 6
    /\ Unwrap(call.result) =
          [head |-> 4, head_hash |-> ChainHeader(5).parent_hash,
           tail |-> 3, tail_parent_hash |-> ChainHeader(2).hash]

\* C24: next_gap returns none exactly when the search head is stored and so
\* is every block from GENESIS up to it; when the search head is not
\* stored, the gap returned has the given head and the given head_hash.
C24_NoGapIffComplete ==
    (call.fn = "next_gap" /\ call.ok) =>
        /\ call.result = None <=>
              \A n \in GENESIS..call.head : n \in Stored
        /\ call.head \notin Stored =>
              /\ IsSome(call.result)
              /\ Unwrap(call.result).head = call.head
              /\ Unwrap(call.result).head_hash = call.head_hash

\* C24 witness: blocks 0..2 and 4 are stored and next_gap from head 2, given
\* a hash of another chain, returned none
C24_Witness ==
    /\ call.fn = "next_gap" /\ call.ok
    /\ Stored = {0, 1, 2, 4}
    /\ call.head = 2
    /\ call.head_hash # ChainHash(2)
    /\ call.result = None

----------------------------------------------------------------------------
(* Properties of the Persist stage *)

\* the block numbers of the batch of the call
BatchNumbers == {call.input[i].header.number : i \in DOMAIN call.input}

\* block n is in none of the tables
NotVisible(n) ==
    /\ n \notin DOMAIN db.block_headers
    /\ n \notin DOMAIN db.signatures
    /\ n \notin DOMAIN db.state_diff_commitment_and_length

\* the header h is stored with its signature and state diff commitment
StoredWhole(h) ==
    LET n == h.header.number
    IN  /\ n \in DOMAIN db.block_headers
        /\ db.block_headers[n] =
              [hash |-> h.header.hash, parent_hash |-> h.header.parent_hash]
        /\ n \in DOMAIN db.signatures
        /\ db.signatures[n] = h.signature
        /\ n \in DOMAIN db.state_diff_commitment_and_length
        /\ db.state_diff_commitment_and_length[n] = h.state_diff_commitment

\* C25: Persist::map writes its batch in one transaction: when it returns
\* Ok every header of the batch is stored with its signature and its state
\* diff commitment and length; when an insert or the commit fails it
\* returns an error and no header, signature or state diff row of the batch
\* is in the database; nothing of the batch is in the database before the
\* call has returned.
C25_PersistAllOrNothing ==
    call.fn = "Persist::map" =>
        /\ call.result = "Ok" =>
              \A i \in DOMAIN call.input : StoredWhole(call.input[i])
        /\ call.result # "Ok" =>
              /\ db = call.before
              /\ \A n \in BatchNumbers : NotVisible(n)

\* C25 witness: the second header of a batch was being written when map
\* returned an error
C25_Witness ==
    /\ call.fn = "Persist::map"
    /\ call.result = "Err"
    /\ Len(call.input) = 2
    /\ call.pos = 2
    /\ call.statement = 3
    /\ call.tx # db

----------------------------------------------------------------------------
(* Properties of the peer directory *)

\* C26: get_update_peers_with_sync_capability returns the cached set of a
\* capability, without asking the transport, only if that capability's set
\* was put in the cache at most the timeout ago: a set older than the
\* timeout is never returned.
C26_NoStaleSetReturned ==
    rwlock # <<>> =>
        \A t \in Tasks :
            tasks[t].pc = "hit" => tasks[t].age <= TimeoutTicks


\* C27: on every miss of get_update_peers_with_sync_capability, whatever
\* the transport lookup returns, the provider set holds the node's own id,
\* so the debug assertion on its removal never fails, and the own id is
\* neither cached nor returned.
C27_OwnIdAlwaysProvided ==
    rwlock # <<>> =>
        /\ \A t \in Tasks :
              /\ tasks[t].assertion # "failed"
              /\ tasks[t].pc # "panic"
              /\ Self \notin tasks[t].peers
        /\ \A c \in DOMAIN peers_with_capability.set :
              Self \notin peers_with_capability.set[c]

\* a task waits for the lock
Waits(t) == tasks[t].pc \in {"read", "write"}

\* a task is inside get_update_peers_with_sync_capability
Inside(t) == tasks[t].pc \notin {"idle", "panic"}

\* C28: a task asks for the write lock of the peer directory only after its
\* read attempt missed and after it has dropped its read guard: no task
\* waits for the write lock, or holds it, while it holds a read guard, and
\* whenever a task is inside the call some task inside it can take a step,
\* so the callers never deadlock.
C28_WriteAfterReadReleased ==
    rwlock # <<>> =>
        /\ \A t \in Tasks :
              tasks[t].pc \in {"write", "update"} =>
                  /\ tasks[t].missed
                  /\ t \notin rwlock.readers
        /\ (\E t \in Tasks : Inside(t)) =>
              \E t \in Tasks : Inside(t) /\ ENABLED DirTaskStep(t)

\* C28 witness: a task waits for the write lock while the other task holds
\* a read guard
C28_Witness ==
    /\ rwlock # <<>>
    /\ tasks["t1"].pc = "write"
    /\ rwlock.readers = {"t2"}
    /\ tasks["t2"].pc = "hit"

----------------------------------------------------------------------------
(* Properties of state_diff_for_block *)

\* the sum of cost over the responses of a sequence
RECURSIVE TotalCost(_, _)
TotalCost(rs, full) ==
    IF rs = <<>> THEN 0
    ELSE (IF full THEN FullCost(Head(rs)) ELSE CountedCost(Head(rs)))
         + TotalCost(Tail(rs), full)

\* the value state_diff_for_block has returned
SdbResult == out[1]

SdbReturned == engine = "sdb" /\ pc = "done"

\* What state_diff_for_block returns, given how the items of a peer are
\* counted: Ok(Some) for the peer whose Fin came after items of exactly
\* state_diff_length, Err naming the peer whose items went over it or whose
\* Fin came early, Ok(None) when no peer sent Fin.
SdbReturnsByCount(full) ==
    LET length == Unwrap(current_count_outer)
        items == TotalCost(resp.taken, full)
    IN  /\ SdbResult.result = "Ok(Some)" =>
              /\ resp.response = Fin
              /\ items = length
              /\ SdbResult.peer = peer
              /\ SdbResult.state_diff =
                     FoldDiffs(length, DefaultStateUpdateData, resp.taken)
        /\ SdbResult.result = "Err" =>
              /\ SdbResult.peer = peer
              /\ \/ resp.response = Fin /\ items < length
                 \/ resp.response # Fin /\ items > length
        /\ SdbResult.result = "Ok(None)" => resp.response # Fin
        /\ (resp.response = Fin /\ items = length) =>
              SdbResult.result = "Ok(Some)"
        /\ (resp.response = Fin /\ items # length) =>
              SdbResult.result = "Err"

\* C29 (as claimed): state_diff_for_block returns Ok(Some((peer, diff)))
\* only if that peer sent Fin after storage values, present nonces, present
\* class hashes and declared classes that total state_diff_length; it
\* returns Err(IncorrectStateDiffCount(peer)) for the peer whose items go
\* over the length or whose Fin comes while the count is not used up; it
\* returns Ok(None) only if no peer ended its response with Fin.
C29_FullCount == SdbReturned => SdbReturnsByCount(TRUE)

\* C29 (amended): as claimed, with the nonce and the class hash of a
\* ContractDiff for ContractAddress::ONE not counted (and not kept).
C29_CountedItems ==
    /\ SdbReturned => SdbReturnsByCount(FALSE)
    /\ (engine = "sdb" /\ pc # "done") =>
          /\ resp.response # Fin
          /\ TotalCost(resp.taken, FALSE) <= Unwrap(current_count_outer)

\* C29 witness: the first peer's stream ended without Fin and the second
\* peer sent two responses and Fin
C29_Witness ==
    /\ SdbReturned
    /\ SdbResult.result = "Ok(Some)"
    /\ peer = 2
    /\ Len(resp.taken) = 2
    /\ Unwrap(current_count_outer) = 2

----------------------------------------------------------------------------
(* Properties of the websocket of the RPC router *)

\* the places of the send channel that hold the response to the request
\* that started subscription id
SubscribedAt(id) ==
    {j \in DOMAIN ws_tx.sent :
        /\ ws_tx.sent[j].kind = "responses"
        /\ \E k \in DOMAIN ws_tx.sent[j].responses :
              ws_tx.sent[j].responses[k] = Subscribed(id)}

\* the places of the send channel that hold what the task of subscription
\* id has sent
FromTask(id) ==
    {j \in DOMAIN ws_tx.sent :
        ws_tx.sent[j] \in {Notification(id), SubscriptionError(id)}}

\* C30: on the websocket send channel, every notification and every error
\* of the task of a subscription comes after the success response that
\* carries the subscription's id, whether the request was alone or in a
\* batch.
C30_ResponseBeforeNotifications ==
    handler # <<>> =>
        \A id \in SubscriptionIds : \A j \in FromTask(id) :
            \E i \in SubscribedAt(id) : i < j

\* C30 witness: a subscription was started by a request in a batch, the
\* batch's responses are on the channel, and after them a notification of
\* the subscription's task
C30_Witness ==
    /\ handler # <<>>
    /\ ws_tx.sent = <<Responses(TRUE, <<Subscribed(0)>>), Notification(0)>>
    /\ subscription_tasks[0].phase = "forward"
----------------------------------------------------------------------------
(* Properties of the flow of a subscription *)

\* the block numbers of a list of sent notifications
RECURSIVE BlocksOf(_)
BlocksOf(ms) == IF ms = <<>> THEN <<>> ELSE <<Head(ms).block>> \o BlocksOf(Tail(ms))

\* the numbers from a through b in order
RECURSIVE Numbers(_, _)
Numbers(a, b) == IF a > b THEN <<>> ELSE <<a>> \o Numbers(a + 1, b)

\* the place of the first active update among the notifications sent
FirstUpdateAt ==
    CHOOSE i \in DOMAIN flow.sent :
        /\ flow.sent[i].kind = "update"
        /\ \A j \in 1..(i - 1) : flow.sent[j].kind # "update"

\* the first active update has been sent
FirstUpdateSent ==
    /\ flow # <<>>
    /\ \E i \in DOMAIN flow.sent : flow.sent[i].kind = "update"

\* the updates after the first one that are sent on, of a list of updates
\* taken off rx1: those of a block at most one after the last one sent
RECURSIVE Forwarded(_, _)
Forwarded(last_block, updates) ==
    IF updates = <<>> THEN <<>>
    ELSE IF Head(updates) > last_block + 1
         THEN Forwarded(last_block, Tail(updates))
         ELSE <<Head(updates)>> \o Forwarded(Head(updates), Tail(updates))

\* Up to the first active update the notifications sent are those of the
\* blocks from the starting block N to the update's block, each once and
\* in order; after it they are the updates in `updates`.
FlowCovers(updates) ==
    LET i == FirstUpdateAt
        first == flow.sent[i].block
        N == flow.starting_block
        blocks == BlocksOf(flow.sent)
    IN  /\ SubSeq(blocks, 1, i) = IF N = MAX THEN <<first>> ELSE Numbers(N, first)
        /\ SubSeq(blocks, i + 1, Len(blocks)) = updates

----------------------------------------------------------------------------
(* Properties of StarkHash::from_hex_str *)

\* the number that a hex digit stands for, lower-case or upper-case
HexValue(c) ==
    IF Chars[c] \in 48..57 THEN Chars[c] - 48
    ELSE IF Chars[c] \in 65..70 THEN Chars[c] - 65 + 10
    ELSE Chars[c] - 97 + 10

IsHexDigit(c) == Chars[c] \in (48..57) \cup (65..70) \cup (97..102)

\* the big-endian bytes of the number that a string of hex digits encodes
BytesOfNumber(s) ==
    LET n == Len(s)
        nibble(p) == IF p < 1 THEN 0 ELSE HexValue(s[p])
    IN  [b \in 0..(BufLen - 1) |->
           LET i == (BufLen - 1) - b
           IN  (nibble(n - 2 * i - 1) * 16) + nibble(n - 2 * i)]

\* C32: from_hex_str takes lower-case and upper-case digits and an
\* optional 0x prefix and returns the StarkHash whose big-endian bytes
\* encode the number of the string; it returns Overflow for more than 64
\* digits or a number with one of the top 5 bits set, and InvalidNibble for
\* a character that is no hex digit.
C32_FromHexStr ==
    (call.fn = "from_hex_str" /\ call.result # <<>>) =>
        LET s == StripPrefix(call.hex_str)
            r == call.result[1]
        IN  IF Len(s) > HexDigits THEN r = Overflow
            ELSE IF \E p \in DOMAIN s : ~IsHexDigit(s[p])
                 THEN ~r.ok /\ r.err = "InvalidNibble"
                 ELSE IF BytesOfNumber(s)[0] > 7 THEN r = Overflow
                      ELSE r = HexOk(BytesOfNumber(s))


----------------------------------------------------------------------------
(* Properties of the over-count arms and of the end of the counted engines *)

\* the generator of make_transaction_stream or make_state_diff_stream has
\* taken an over-count arm while `start` was not `stop`
OverCountBeforeLastBlock ==
    /\ engine \in {"tx", "sd"}
    /\ last = "overcount"
    /\ pc \in {"done", "panic"}
    /\ start # stop

\* C33: whenever make_transaction_stream or make_state_diff_stream takes an
\* over-count arm (checked_sub on the current counter returns None), start
\* equals stop, so debug_assert!(start == stop) does not fail, whatever the
\* counts of the blocks (zero included) and whatever the peers send
C33_OverCountOnlyAtStop == ~OverCountBeforeLastBlock


\* the block numbers of the Ok items yielded so far
YieldedBlocks == { out[i].block : i \in DOMAIN out }

\* make_transaction_stream or make_state_diff_stream has ended and has
\* yielded no Err item
EndedWithoutErr ==
    /\ engine \in {"tx", "sd"}
    /\ pc = "done"
    /\ errs = 0

\* C34: when make_transaction_stream or make_state_diff_stream ends without
\* having yielded an Err item, it has yielded an Ok item for every block
\* number of [start, stop]: the sequence has no gap and is not cut short,
\* whatever the counts of the blocks (zero included) and whatever the peers
\* send
C34_EveryBlockDelivered ==
    EndedWithoutErr => \A b \in start0..stop : b \in YieldedBlocks


----------------------------------------------------------------------------
(* Properties of make_event_stream's groups *)

\* C35: in make_event_stream, whenever the transaction hash of an incoming
\* event equals the remembered current_txn_hash, the group list of the
\* current block is not empty, so expect("not empty") does not panic,
\* whatever events a peer sends across the consecutive blocks of one
\* response stream
C35_LastGroupExists == engine = "ev" => pc # "panic"


----------------------------------------------------------------------------
(* Properties of the order of the state diffs *)

\* C36: make_state_diff_stream yields at most one Ok item per block number,
\* and the block numbers of its Ok items increase strictly, whatever the
\* peers send: also a ContractDiff whose countable size is zero, and a
\* channel closed without Fin after the last block was completed
C36_StrictlyIncreasingBlocks ==
    engine = "sd" =>
        \A i, j \in DOMAIN out : i < j => out[i].block < out[j].block


----------------------------------------------------------------------------
(* Properties of the use of the count stream *)

\* the count stream was advanced once for each block entered so far: the
\* items taken are those of the blocks start0 .. start, and the counter
\* saved for the current block is the count of its item
CountStreamInStep ==
    (engine \in {"tx", "sd"} /\ errs = 0) =>
        IF current_count_outer = None
        THEN cs_pos = 0 /\ start = start0
        ELSE /\ cs_pos = start - start0 + 1
             /\ current_count_outer = Some(cs[cs_pos].count)

\* every Ok item carries the commitment of its block's item of the count
\* stream
ItemsCarryCommitment ==
    engine \in {"tx", "sd"} =>
        \A i \in DOMAIN out :
            out[i].expected_commitment =
                StreamCommitment(out[i].block - start0 + 1)

\* C37: make_transaction_stream and make_state_diff_stream advance the count
\* stream once per block number and never when the peer is switched within
\* a block: the counter applied to block start + i is the i-th count of the
\* stream, and every Ok item yielded for block start + i carries the i-th
\* commitment of the stream as its expected_commitment
C37_CountStreamAligned == CountStreamInStep /\ ItemsCarryCommitment


----------------------------------------------------------------------------
(* Properties of the number of headers *)

\* the size of the range header_stream was asked for, |stop - start| + 1
RequestedRangeSize == Max(start0, stop) - Min(start0, stop) + 1

\* C38: header_stream yields no more items than the size of the requested
\* range, |stop - start| + 1, in total over all peers, however many Header
\* responses a peer sends before Fin
C38_AtMostRangeSizeHeaders ==
    engine = "hd" => Len(out) <= RequestedRangeSize


----------------------------------------------------------------------------
(* Properties of make_transaction_stream with honest peers *)

\* the room for honest attempts is never used up
HonestAttemptsSuffice ==
    ~(engine = "tx" /\ pc \in {"get_peers", "next_peer"}
          /\ peer = HonestAttempts)

\* C39: when the count stream holds a count for every block of
\* [start, stop] and the peer lookup, polled fairly, comes to return an
\* honest peer that serves each requested range completely and then sends
\* Fin, make_transaction_stream eventually yields block stop and ends, also
\* when the lookup first returns empty lists or faulty peers
C39_StopEmittedAndTerminated ==
    <>(engine = "tx" /\ pc = "done" /\ stop \in YieldedBlocks)


----------------------------------------------------------------------------
(* Properties of starknet_unsubscribe *)

\* the message at place i of the send channel holds the success response
\* to an unsubscribe of id
UnsubscribedAt(i, id) ==
    /\ ws_tx.sent[i].kind = "responses"
    /\ \E j \in DOMAIN ws_tx.sent[i].responses :
         ws_tx.sent[i].responses[j] = Unsubscribed(id)

\* no notification of a subscription is placed on the send channel after
\* the success response to its unsubscribe
NoNotificationAfterUnsubscribe ==
    \A id \in SubscriptionIds : \A i, k \in DOMAIN ws_tx.sent :
        (i < k /\ UnsubscribedAt(i, id)) =>
            ~(ws_tx.sent[k].kind = "notification"
                  /\ ws_tx.sent[k].subscription_id = id)

\* handle_request on a starknet_unsubscribe: for a registered id the id is
\* removed, the task is aborted and the answer is the success response;
\* for an id that is not registered nothing changes and the answer is an
\* error
UnsubscribeHandled ==
    [][ \A i \in 1..MaxBatch, id \in SubscriptionIds :
          HandleRequest(i, [method |-> "starknet_unsubscribe",
                            subscription_id |-> id])
            => IF id \in subscriptions
               THEN /\ subscriptions' = subscriptions \ {id}
                    /\ subscription_tasks'[id].aborted
                         \/ subscription_tasks'[id] = TaskReturned
                    /\ handler'.responses[i] = Unsubscribed(id)
               ELSE /\ UNCHANGED <<subscriptions, subscription_tasks>>
                    /\ handler'.responses[i] = RpcErrorResponse ]_vars

\* C40: starknet_unsubscribe for a registered subscription id removes the
\* id and aborts its task, and once the success response to it has been
\* placed on the websocket send channel no notification of that
\* subscription is placed on it any more, however the subscription task
\* and the request handler interleave; an unsubscribe for an id that is
\* unknown or already removed returns invalid params
C40_UnsubscribeEndsNotifications ==
    UnsubscribeHandled /\ []NoNotificationAfterUnsubscribe

====
